---- MODULE Spec2Model ----
(***************************************************************************)
(* Multi-agent resume processing (backend/utils/resume_agents.py).         *)
(*                                                                         *)
(* A Python str is a sequence of non-empty pieces (a piece is one          *)
(* character wherever a function looks inside the string); the empty       *)
(* string is << >>.  A JSON / Python value is a tagged record:             *)
(*   [t |-> "null"], [t |-> "num"] (a non-zero number),                    *)
(*   [t |-> "str", v |-> s], [t |-> "list", v |-> seq],                    *)
(*   [t |-> "obj", f |-> record of fields].                                *)
(* A dict whose key order matters (the SectionMap) is a sequence of        *)
(* [k, v] pairs in insertion order.                                        *)
(***************************************************************************)
EXTENDS Integers, Sequences, FiniteSets, TLC

VARIABLES
    pc,            \* position of process_resume_with_agents
    raw_text,      \* the raw_text argument
    meta_order,    \* iteration order of the META_KEYS set in this process
    sections,      \* the SectionMap after chunking and reordering
    agent_inputs,  \* agent type -> input string
    task,          \* agent type -> state of its task under gather
    calls,         \* agent type -> external calls issued so far
    results,       \* agent type -> what its task returned
    events,        \* events yielded so far
    probe          \* a pure function under test: its arguments and result

vars == <<pc, raw_text, meta_order, sections, agent_inputs, task, calls,
          results, events, probe>>

orch_vars == <<pc, raw_text, meta_order, sections, agent_inputs, task, calls,
               results, events>>

-----------------------------------------------------------------------------
(* Bounds *)

MaxCalls == 3

\* most keys of a mapping given to reorder_sections_to_standard
MaxSectionKeys == 3

\* longest array of an agent's output given to the cleaning
MaxArrayLen == 2

\* most parts a certification name is made of
MaxCertParts == 3

\* most entries of the education list the model returns
MaxEducation == 2

\* longest title, in characters, given to the merge
MaxTitleLen == 4

\* most parts a name given to the merge is made of
MaxNameParts == 3

\* most projects of a job given to enforce_project_period_dedup
MaxProjects == 2

\* most parts a period given to normalize_work_period is made of
MaxPeriodParts == 3

\* most parts a location given to normalize_location is made of
MaxLocationParts == 4

\* most parts a text given to chunk_resume_from_bold_headings is made of
MaxChunkParts == 3

-----------------------------------------------------------------------------
(* Strings *)

IsSpace(c) == c \in {" ", "\n", "\t", "\r"}

RECURSIVE lstrip(_)
lstrip(s) ==
    IF s = << >> THEN << >>
    ELSE IF IsSpace(Head(s)) THEN lstrip(Tail(s)) ELSE s

RECURSIVE rstrip(_)
rstrip(s) ==
    IF s = << >> THEN << >>
    ELSE IF IsSpace(s[Len(s)]) THEN rstrip(SubSeq(s, 1, Len(s) - 1)) ELSE s

strip(s) == rstrip(lstrip(s))

\* s[:n]
Prefix(s, n) == SubSeq(s, 1, IF Len(s) < n THEN Len(s) ELSE n)

LowerChars ==
    <<"a", "b", "c", "d", "e", "f", "g", "h", "i", "j", "k", "l", "m",
      "n", "o", "p", "q", "r", "s", "t", "u", "v", "w", "x", "y", "z">>
UpperChars ==
    <<"A", "B", "C", "D", "E", "F", "G", "H", "I", "J", "K", "L", "M",
      "N", "O", "P", "Q", "R", "S", "T", "U", "V", "W", "X", "Y", "Z">>
DigitChars == {"0", "1", "2", "3", "4", "5", "6", "7", "8", "9"}

IsLowerCh(c) == \E i \in 1..26 : LowerChars[i] = c
IsUpperCh(c) == \E i \in 1..26 : UpperChars[i] = c
IsAlpha(c) == IsLowerCh(c) \/ IsUpperCh(c)
IsAlnum(c) == IsAlpha(c) \/ c \in DigitChars
\* \w
IsWord(c) == IsAlnum(c) \/ c = "_"

Lower(c) ==
    IF IsUpperCh(c) THEN LowerChars[CHOOSE i \in 1..26 : UpperChars[i] = c]
    ELSE c
Upper(c) ==
    IF IsLowerCh(c) THEN UpperChars[CHOOSE i \in 1..26 : LowerChars[i] = c]
    ELSE c

\* s.lower()
lower(s) == [i \in 1..Len(s) |-> Lower(s[i])]

\* the least member of a set of numbers
MinOf(S) == CHOOSE x \in S : \A y \in S : x <= y

\* s[i:] with i counted from 1
From(s, i) == SubSeq(s, i, Len(s))

\* s.strip(chars)
RECURSIVE strip_chars(_, _)
strip_chars(s, chars) ==
    IF s = << >> THEN << >>
    ELSE IF Head(s) \in chars THEN strip_chars(Tail(s), chars)
    ELSE IF s[Len(s)] \in chars
         THEN strip_chars(SubSeq(s, 1, Len(s) - 1), chars)
    ELSE s

\* re.sub(r'\s+', ' ', s)
RECURSIVE collapse_ws(_)
collapse_ws(s) ==
    IF s = << >> THEN << >>
    ELSE IF IsSpace(Head(s)) THEN <<" ">> \o collapse_ws(lstrip(s))
    ELSE <<Head(s)>> \o collapse_ws(Tail(s))

\* " ".join(s.split())
join_split(s) == collapse_ws(strip(s))

\* the pattern text w (lower case) matches s at position i, ignoring case
MatchAt(s, i, w) ==
    /\ i >= 1
    /\ i + Len(w) - 1 <= Len(s)
    /\ \A j \in 1..Len(w) : Lower(s[i + j - 1]) = w[j]

\* position after the run of whitespace that starts at i
RECURSIVE SkipSpace(_, _)
SkipSpace(s, i) ==
    IF i <= Len(s) /\ IsSpace(s[i]) THEN SkipSpace(s, i + 1) ELSE i

-----------------------------------------------------------------------------
(* JSON / Python values *)

JNull == [t |-> "null"]
JNum == [t |-> "num"]
JStr(s) == [t |-> "str", v |-> s]
JList(l) == [t |-> "list", v |-> l]
JObj(f) == [t |-> "obj", f |-> f]

EmptyStr == JStr(<< >>)
EmptyList == JList(<< >>)
EmptyDict == JObj(<< >>)

IsDict(j) == j.t = "obj"
IsList(j) == j.t = "list"
IsStr(j) == j.t = "str"

\* bool(j)
Truthy(j) ==
    CASE j.t = "null" -> FALSE
      [] j.t = "num" -> TRUE
      [] j.t = "str" -> j.v # << >>
      [] j.t = "list" -> j.v # << >>
      [] j.t = "obj" -> DOMAIN j.f # {}

\* d.get(k, default) on a dict d
GetOr(d, k, default) == IF k \in DOMAIN d.f THEN d.f[k] ELSE default

\* d.get(k)
Get(d, k) == GetOr(d, k, JNull)

\* d[k] = v
Put(d, k, v) ==
    JObj([x \in DOMAIN d.f \cup {k} |-> IF x = k THEN v ELSE d.f[x]])

\* a or b
Or(a, b) == IF Truthy(a) THEN a ELSE b

-----------------------------------------------------------------------------
(* Ordered dicts (the SectionMap) *)

DictKeys(d) == [i \in 1..Len(d) |-> d[i].k]
DictHas(d, k) == \E i \in 1..Len(d) : d[i].k = k
DictGet(d, k) ==
    IF DictHas(d, k) THEN d[CHOOSE i \in 1..Len(d) : d[i].k = k].v ELSE JNull

-----------------------------------------------------------------------------
(* normalize_person_name *)

NameLabels ==
    << <<"n", "a", "m", "e">>,
       <<"c", "a", "n", "d", "i", "d", "a", "t", "e", " ", "n", "a", "m", "e">>,
       <<"f", "u", "l", "l", " ", "n", "a", "m", "e">> >>

\* the alternatives of metadata_keywords, spelled out; \s* is at most one
\* blank because the name has been whitespace-collapsed before they are used
MetadataKeywords ==
    { <<"p", "r", "e", "f", "e", "r", "r", "e", "d", " ", "n", "a", "m", "e">>,
      <<"p", "r", "e", "f", "e", "r", "r", "e", "d", "n", "a", "m", "e">>,
      <<"p", "r", "o", "n", "o", "u", "n">>,
      <<"p", "r", "o", "n", "o", "u", "n", "s">>,
      <<"a", "k", "a">>,
      <<"a", "l", "s", "o", " ", "k", "n", "o", "w", "n", " ", "a", "s">>,
      <<"l", "e", "g", "a", "l", " ", "n", "a", "m", "e">>,
      <<"n", "i", "c", "k", "n", "a", "m", "e">>,
      <<"m", "a", "i", "d", "e", "n", " ", "n", "a", "m", "e">> }
    \cup
    { <<"a">> \o d1 \o s1 \o <<"k">> \o d2 \o s2 \o <<"a">> \o d3 :
        d1 \in {<< >>, <<".">>}, s1 \in {<< >>, <<" ">>},
        d2 \in {<< >>, <<".">>}, s2 \in {<< >>, <<" ">>},
        d3 \in {<< >>, <<".">>} }

OpenBrackets == {"(", "[", "{"}
CloseBrackets == {")", "]", "}"}

\* (?<!\w)(?:keyword)(?!\w) matches s[i..e]
KeywordAt(s, i, e) ==
    /\ \E w \in MetadataKeywords : e = i + Len(w) - 1 /\ MatchAt(s, i, w)
    /\ (i = 1 \/ ~IsWord(s[i - 1]))
    /\ (e = Len(s) \/ ~IsWord(s[e + 1]))

\* ^\s*(?:name|candidate name|full name)\s*[:\-]\s* : the position after
\* the match, or 1 when the pattern does not match
LabelEnd(s) ==
    LET b == SkipSpace(s, 1)
        hits == { SkipSpace(s, b + Len(NameLabels[n])) : n \in
                    { m \in 1..Len(NameLabels) : MatchAt(s, b, NameLabels[m]) } }
        ok == { p \in hits : p <= Len(s) /\ s[p] \in {":", "-"} }
    IN  IF ok = {} THEN 1
        ELSE SkipSpace(s, (CHOOSE p \in ok : TRUE) + 1)

\* position of the first closing bracket after i, 0 if none
RECURSIVE FirstClose(_, _)
FirstClose(s, i) ==
    IF i > Len(s) THEN 0
    ELSE IF s[i] \in CloseBrackets THEN i ELSE FirstClose(s, i + 1)

\* \s*[([{][^)\]}]*KEYWORD[^)\]}]*[)\]}]\s* matched from position p: the
\* position after the match, 0 when there is no match at p
BracketedEnd(s, p) ==
    LET q == SkipSpace(s, p)
        c == IF q <= Len(s) /\ s[q] \in OpenBrackets
             THEN FirstClose(s, q + 1) ELSE 0
    IN  IF c # 0 /\ \E i \in (q + 1)..(c - 1), e \in (q + 1)..(c - 1) :
                        KeywordAt(s, i, e)
        THEN SkipSpace(s, c + 1)
        ELSE 0

\* re.sub of the bracketed-metadata pattern by " ", scanning from p
RECURSIVE remove_bracketed(_, _)
remove_bracketed(s, p) ==
    IF p > Len(s) THEN << >>
    ELSE IF BracketedEnd(s, p) # 0
         THEN <<" ">> \o remove_bracketed(s, BracketedEnd(s, p))
    ELSE <<s[p]>> \o remove_bracketed(s, p + 1)

\* KEYWORD(?:\s*[:\-])?\s+.*$ matches from position i
TailAt(s, i) ==
    \E e \in i..Len(s) :
        /\ KeywordAt(s, i, e)
        /\ \/ e + 1 <= Len(s) /\ IsSpace(s[e + 1])
           \/ LET c == SkipSpace(s, e + 1)
              IN  /\ c + 1 <= Len(s)
                  /\ s[c] \in {":", "-"}
                  /\ IsSpace(s[c + 1])

\* re.sub of the inline-tail pattern by ""
remove_tail(s) ==
    LET hits == { i \in 1..Len(s) : TailAt(s, i) }
    IN  IF hits = {} THEN s
        ELSE SubSeq(s, 1, (CHOOSE i \in hits : \A j \in hits : i <= j) - 1)

NameCharOk(c) == IsAlpha(c) \/ c \in {".", "-", "'"} \/ IsSpace(c)

\* words = s.split(); each word (or each part of a word between
\* apostrophes) is capitalize()d; " ".join(...)
title_case(s) ==
    LET w == join_split(s)
    IN  [i \in 1..Len(w) |->
            IF i = 1 \/ w[i - 1] \in {" ", "'"}
            THEN Upper(w[i]) ELSE Lower(w[i])]

normalize_person_name(name) ==
    IF name = << >> THEN << >>
    ELSE
      LET n1 == join_split(name)
          n2 == From(n1, LabelEnd(n1))
          n3 == remove_bracketed(n2, 1)
          n4 == remove_tail(n3)
          n5 == [i \in 1..Len(n4) |->
                    IF NameCharOk(n4[i]) THEN n4[i] ELSE " "]
          n6 == strip_chars(collapse_ws(n5), {" ", "-", ",", ":", ";"})
      IN  strip(title_case(n6))

-----------------------------------------------------------------------------
(* normalize_work_period *)

\* the characters U+2013 and U+2014, each one piece of a string
EnDash == "[en dash]"
EmDash == "[em dash]"

\* s.replace(c, d) for single characters
replace_char(s, c, d) == [i \in 1..Len(s) |-> IF s[i] = c THEN d ELSE s[i]]

\* re.sub(r'\s+to\s+', ' - ', s, flags=re.IGNORECASE) from position p
RECURSIVE sub_to(_, _)
sub_to(s, p) ==
    IF p > Len(s) THEN << >>
    ELSE LET q == SkipSpace(s, p)
         IN  IF /\ IsSpace(s[p])
                /\ MatchAt(s, q, <<"t", "o">>)
                /\ q + 2 <= Len(s)
                /\ IsSpace(s[q + 2])
             THEN <<" ", "-", " ">> \o sub_to(s, SkipSpace(s, q + 2))
             ELSE <<s[p]>> \o sub_to(s, p + 1)

IsDigit(c) == c \in DigitChars

\* re.sub(r'(\d)\s*/\s*(\d)', r'\1 - \2', s) from position p
RECURSIVE sub_slash(_, _)
sub_slash(s, p) ==
    IF p > Len(s) THEN << >>
    ELSE LET q == SkipSpace(s, p + 1)
             r == SkipSpace(s, q + 1)
         IN  IF /\ IsDigit(s[p])
                /\ q <= Len(s) /\ s[q] = "/"
                /\ r <= Len(s) /\ IsDigit(s[r])
             THEN <<s[p]>> \o <<" ", "-", " ">> \o <<s[r]>> \o sub_slash(s, r + 1)
             ELSE <<s[p]>> \o sub_slash(s, p + 1)

\* re.sub(r'\s*-\s*', ' - ', s) from position p
RECURSIVE sub_hyphen(_, _)
sub_hyphen(s, p) ==
    IF p > Len(s) THEN << >>
    ELSE LET q == SkipSpace(s, p)
         IN  IF q <= Len(s) /\ s[q] = "-"
             THEN <<" ", "-", " ">> \o sub_hyphen(s, SkipSpace(s, q + 1))
             ELSE <<s[p]>> \o sub_hyphen(s, p + 1)

\* month_mapping, in the order of the dict: the full name in lower case
\* and its abbreviation
month_mapping ==
    << <<<<"j", "a", "n", "u", "a", "r", "y">>, <<"J", "a", "n">>>>, <<<<"f", "e", "b", "r", "u", "a", "r", "y">>, <<"F", "e", "b">>>>,
       <<<<"m", "a", "r", "c", "h">>, <<"M", "a", "r">>>>, <<<<"a", "p", "r", "i", "l">>, <<"A", "p", "r">>>>,
       <<<<"j", "u", "n", "e">>, <<"J", "u", "n">>>>, <<<<"j", "u", "l", "y">>, <<"J", "u", "l">>>>,
       <<<<"a", "u", "g", "u", "s", "t">>, <<"A", "u", "g">>>>, <<<<"s", "e", "p", "t", "e", "m", "b", "e", "r">>, <<"S", "e", "p">>>>,
       <<<<"o", "c", "t", "o", "b", "e", "r">>, <<"O", "c", "t">>>>, <<<<"n", "o", "v", "e", "m", "b", "e", "r">>, <<"N", "o", "v">>>>,
       <<<<"d", "e", "c", "e", "m", "b", "e", "r">>, <<"D", "e", "c">>>> >>

\* \bw\b matches s at position p, ignoring case
WordAt(s, p, w) ==
    /\ MatchAt(s, p, w)
    /\ (p = 1 \/ ~IsWord(s[p - 1]))
    /\ (p + Len(w) > Len(s) \/ ~IsWord(s[p + Len(w)]))

\* re.sub(rf'\b{full_month}\b', abbrev, s, flags=re.IGNORECASE) from p
RECURSIVE sub_month(_, _, _, _)
sub_month(s, p, full_month, abbrev) ==
    IF p > Len(s) THEN << >>
    ELSE IF WordAt(s, p, full_month)
         THEN abbrev \o sub_month(s, p + Len(full_month), full_month, abbrev)
    ELSE <<s[p]>> \o sub_month(s, p + 1, full_month, abbrev)

\* the loop over month_mapping from its n-th item on
RECURSIVE sub_months(_, _)
sub_months(s, n) ==
    IF n > Len(month_mapping) THEN s
    ELSE sub_months(sub_month(s, 1, month_mapping[n][1],
                              month_mapping[n][2]), n + 1)

\* \d{4} at position p
YearAt(s, p) ==
    /\ p >= 1
    /\ p + 3 <= Len(s)
    /\ \A i \in p..(p + 3) : IsDigit(s[i])

\* ^\s*(\d{4})\s*$
IsBareYear(s) == Len(strip(s)) = 4 /\ YearAt(strip(s), 1)

\* position after ^\s*(\d{4})\s*-\s* in the stripped string t, 0 when it
\* does not match
AfterYearHyphen(t) ==
    IF ~YearAt(t, 1) THEN 0
    ELSE LET q == SkipSpace(t, 5)
         IN  IF q <= Len(t) /\ t[q] = "-" THEN SkipSpace(t, q + 1) ELSE 0

\* ^\s*(\d{4})\s*-\s*(\d{4})\s*$
IsYearRange(s) ==
    LET t == strip(s)
        r == AfterYearHyphen(t)
    IN  r # 0 /\ YearAt(t, r) /\ r + 3 = Len(t)

TillWords == { <<"t", "i", "l", "l", " ", "d", "a", "t", "e">>, <<"p", "r", "e", "s", "e", "n", "t">>, <<"c", "u", "r", "r", "e", "n", "t">>, <<"t", "i", "l", "l", " ", "n", "o", "w">> }

\* ^\s*(\d{4})\s*-\s*(Till Date|Present|Current|Till Now)\s*$, ignoring case
IsYearTillDate(s) ==
    LET t == strip(s)
        r == AfterYearHyphen(t)
    IN  /\ r # 0
        /\ \E w \in TillWords : MatchAt(t, r, w) /\ r + Len(w) - 1 = Len(t)

\* the positions where r' - [^0-9]*$' matches
OpenEnds(s) ==
    { p \in 1..(Len(s) - 2) :
        /\ SubSeq(s, p, p + 2) = <<" ", "-", " ">>
        /\ \A i \in (p + 3)..Len(s) : ~IsDigit(s[i]) }

\* Step 6: re.sub(r' - [^0-9]*$', ' - Till Date', s)
sub_open_end(s) ==
    IF OpenEnds(s) = {} THEN s
    ELSE LET p == CHOOSE x \in OpenEnds(s) : \A y \in OpenEnds(s) : x <= y
         IN  SubSeq(s, 1, p - 1) \o <<" ", "-", " ", "T", "i", "l", "l", " ", "D", "a", "t", "e">>

\* normalize_work_period on a non-empty str
normalize_work_period(work_period) ==
    IF work_period = << >> THEN work_period
    ELSE
      LET n1 == replace_char(replace_char(work_period, EnDash, "-"),
                             EmDash, "-")
          n2 == sub_to(n1, 1)
          n3 == sub_slash(n2, 1)
          n4 == sub_hyphen(n3, 1)
          n5 == sub_months(n4, 1)
          t == strip(n5)
      IN  IF IsBareYear(n5) THEN t
          ELSE IF IsYearRange(n5)
               THEN SubSeq(t, 1, 4) \o <<" ", "-", " ">> \o SubSeq(t, Len(t) - 3, Len(t))
          ELSE IF IsYearTillDate(n5)
               THEN SubSeq(t, 1, 4) \o <<" ", "-", " ", "T", "i", "l", "l", " ", "D", "a", "t", "e">>
          ELSE strip(sub_open_end(n5))

-----------------------------------------------------------------------------

(* normalize_location *)

\* _US_STATE_MAP in the order of the dict: full name, abbreviation
US_STATE_MAP ==
    << <<<<"A", "l", "a", "b", "a", "m", "a">>, <<"A", "L">>>>,
       <<<<"A", "l", "a", "s", "k", "a">>, <<"A", "K">>>>,
       <<<<"A", "r", "i", "z", "o", "n", "a">>, <<"A", "Z">>>>,
       <<<<"A", "r", "k", "a", "n", "s", "a", "s">>, <<"A", "R">>>>,
       <<<<"C", "a", "l", "i", "f", "o", "r", "n", "i", "a">>, <<"C", "A">>>>,
       <<<<"C", "o", "l", "o", "r", "a", "d", "o">>, <<"C", "O">>>>,
       <<<<"C", "o", "n", "n", "e", "c", "t", "i", "c", "u", "t">>, <<"C", "T">>>>,
       <<<<"D", "e", "l", "a", "w", "a", "r", "e">>, <<"D", "E">>>>,
       <<<<"F", "l", "o", "r", "i", "d", "a">>, <<"F", "L">>>>,
       <<<<"G", "e", "o", "r", "g", "i", "a">>, <<"G", "A">>>>,
       <<<<"H", "a", "w", "a", "i", "i">>, <<"H", "I">>>>,
       <<<<"I", "d", "a", "h", "o">>, <<"I", "D">>>>,
       <<<<"I", "l", "l", "i", "n", "o", "i", "s">>, <<"I", "L">>>>,
       <<<<"I", "n", "d", "i", "a", "n", "a">>, <<"I", "N">>>>,
       <<<<"I", "o", "w", "a">>, <<"I", "A">>>>,
       <<<<"K", "a", "n", "s", "a", "s">>, <<"K", "S">>>>,
       <<<<"K", "e", "n", "t", "u", "c", "k", "y">>, <<"K", "Y">>>>,
       <<<<"L", "o", "u", "i", "s", "i", "a", "n", "a">>, <<"L", "A">>>>,
       <<<<"M", "a", "i", "n", "e">>, <<"M", "E">>>>,
       <<<<"M", "a", "r", "y", "l", "a", "n", "d">>, <<"M", "D">>>>,
       <<<<"M", "a", "s", "s", "a", "c", "h", "u", "s", "e", "t", "t", "s">>, <<"M", "A">>>>,
       <<<<"M", "i", "c", "h", "i", "g", "a", "n">>, <<"M", "I">>>>,
       <<<<"M", "i", "n", "n", "e", "s", "o", "t", "a">>, <<"M", "N">>>>,
       <<<<"M", "i", "s", "s", "i", "s", "s", "i", "p", "p", "i">>, <<"M", "S">>>>,
       <<<<"M", "i", "s", "s", "o", "u", "r", "i">>, <<"M", "O">>>>,
       <<<<"M", "o", "n", "t", "a", "n", "a">>, <<"M", "T">>>>,
       <<<<"N", "e", "b", "r", "a", "s", "k", "a">>, <<"N", "E">>>>,
       <<<<"N", "e", "v", "a", "d", "a">>, <<"N", "V">>>>,
       <<<<"N", "e", "w", " ", "H", "a", "m", "p", "s", "h", "i", "r", "e">>, <<"N", "H">>>>,
       <<<<"N", "e", "w", " ", "J", "e", "r", "s", "e", "y">>, <<"N", "J">>>>,
       <<<<"N", "e", "w", " ", "M", "e", "x", "i", "c", "o">>, <<"N", "M">>>>,
       <<<<"N", "e", "w", " ", "Y", "o", "r", "k">>, <<"N", "Y">>>>,
       <<<<"N", "o", "r", "t", "h", " ", "C", "a", "r", "o", "l", "i", "n", "a">>, <<"N", "C">>>>,
       <<<<"N", "o", "r", "t", "h", " ", "D", "a", "k", "o", "t", "a">>, <<"N", "D">>>>,
       <<<<"O", "h", "i", "o">>, <<"O", "H">>>>,
       <<<<"O", "k", "l", "a", "h", "o", "m", "a">>, <<"O", "K">>>>,
       <<<<"O", "r", "e", "g", "o", "n">>, <<"O", "R">>>>,
       <<<<"P", "e", "n", "n", "s", "y", "l", "v", "a", "n", "i", "a">>, <<"P", "A">>>>,
       <<<<"R", "h", "o", "d", "e", " ", "I", "s", "l", "a", "n", "d">>, <<"R", "I">>>>,
       <<<<"S", "o", "u", "t", "h", " ", "C", "a", "r", "o", "l", "i", "n", "a">>, <<"S", "C">>>>,
       <<<<"S", "o", "u", "t", "h", " ", "D", "a", "k", "o", "t", "a">>, <<"S", "D">>>>,
       <<<<"T", "e", "n", "n", "e", "s", "s", "e", "e">>, <<"T", "N">>>>,
       <<<<"T", "e", "x", "a", "s">>, <<"T", "X">>>>,
       <<<<"U", "t", "a", "h">>, <<"U", "T">>>>,
       <<<<"V", "e", "r", "m", "o", "n", "t">>, <<"V", "T">>>>,
       <<<<"V", "i", "r", "g", "i", "n", "i", "a">>, <<"V", "A">>>>,
       <<<<"W", "a", "s", "h", "i", "n", "g", "t", "o", "n">>, <<"W", "A">>>>,
       <<<<"W", "e", "s", "t", " ", "V", "i", "r", "g", "i", "n", "i", "a">>, <<"W", "V">>>>,
       <<<<"W", "i", "s", "c", "o", "n", "s", "i", "n">>, <<"W", "I">>>>,
       <<<<"W", "y", "o", "m", "i", "n", "g">>, <<"W", "Y">>>>,
       <<<<"D", "i", "s", "t", "r", "i", "c", "t", " ", "o", "f", " ", "C", "o", "l", "u", "m", "b", "i", "a">>, <<"D", "C">>>> >>

US_STATE_ABBREVS == { US_STATE_MAP[i][2] : i \in 1..Len(US_STATE_MAP) }

\* re.search(r'\bIndia\b', s, re.IGNORECASE)
MentionsIndia(s) == \E p \in 1..Len(s) : WordAt(s, p, <<"i", "n", "d", "i", "a">>)

\* the match of ^([^,]+): the text before the first comma
RECURSIVE BeforeComma(_)
BeforeComma(s) ==
    IF s = << >> \/ Head(s) = "," THEN << >>
    ELSE <<Head(s)>> \o BeforeComma(Tail(s))

\* re.sub(r'\b[A-Z]{2}\b', '', s) from position p
RECURSIVE sub_state_code(_, _)
sub_state_code(s, p) ==
    IF p > Len(s) THEN << >>
    ELSE IF /\ p + 1 <= Len(s)
            /\ IsUpperCh(s[p]) /\ IsUpperCh(s[p + 1])
            /\ (p = 1 \/ ~IsWord(s[p - 1]))
            /\ (p + 2 > Len(s) \/ ~IsWord(s[p + 2]))
         THEN sub_state_code(s, p + 2)
    ELSE <<s[p]>> \o sub_state_code(s, p + 1)

\* position after the run of \w that starts at i
RECURSIVE SkipWord(_, _)
SkipWord(s, i) ==
    IF i <= Len(s) /\ IsWord(s[i]) THEN SkipWord(s, i + 1) ELSE i

\* the positions where r'\s*,\s*\w+\s*$' matches
TrailingSegments(s) ==
    { p \in 1..Len(s) :
        LET q == SkipSpace(s, p)
            w == SkipSpace(s, q + 1)
        IN  /\ q <= Len(s) /\ s[q] = ","
            /\ SkipWord(s, w) > w
            /\ SkipSpace(s, SkipWord(s, w)) > Len(s) }

\* re.sub(r'\s*,\s*\w+\s*$', '', s)
sub_trailing_segment(s) ==
    IF TrailingSegments(s) = {} THEN s
    ELSE SubSeq(s, 1, (CHOOSE p \in TrailingSegments(s) :
                          \A q \in TrailingSegments(s) : p <= q) - 1)

\* the India rule as it would be without the test that the city is not
\* itself "India"
india_rule_NoDuplicateTest(normalized) ==
    LET city == strip(sub_trailing_segment(
                    strip_chars(sub_state_code(strip(BeforeComma(normalized)),
                                               1), {" ", ","})))
    IN  IF BeforeComma(normalized) # << >> /\ city # << >>
        THEN city \o <<",", " ", "I", "n", "d", "i", "a">>
        ELSE <<"I", "n", "d", "i", "a">>

\* RULE 1 of normalize_location, on the whitespace-collapsed string
india_rule(normalized) ==
    LET city == strip(sub_trailing_segment(
                    strip_chars(sub_state_code(strip(BeforeComma(normalized)),
                                               1), {" ", ","})))
    IN  IF /\ BeforeComma(normalized) # << >>
           /\ city # << >>
           /\ lower(city) # <<"i", "n", "d", "i", "a">>
        THEN city \o <<",", " ", "I", "n", "d", "i", "a">>
        ELSE <<"I", "n", "d", "i", "a">>

\* r',\s*' + full_state + r'\b' matches s at position p, ignoring case: the
\* position after the match, 0 when there is none
StateAt(s, p, full_state) ==
    LET q == SkipSpace(s, p + 1)
        e == q + Len(full_state)
    IN  IF /\ s[p] = ","
           /\ MatchAt(s, q, lower(full_state))
           /\ (e > Len(s) \/ ~IsWord(s[e]))
        THEN e ELSE 0

\* re.sub(pattern, f', {abbrev}', s, flags=re.IGNORECASE) from position p
RECURSIVE sub_state(_, _, _, _)
sub_state(s, p, full_state, abbrev) ==
    IF p > Len(s) THEN << >>
    ELSE IF StateAt(s, p, full_state) # 0
         THEN <<",", " ">> \o abbrev
              \o sub_state(s, StateAt(s, p, full_state), full_state, abbrev)
    ELSE <<s[p]>> \o sub_state(s, p + 1, full_state, abbrev)

\* the loop over _US_STATE_MAP, which stops at the first state found
abbreviate_state(s) ==
    LET found == { n \in 1..Len(US_STATE_MAP) :
                     \E p \in 1..Len(s) : StateAt(s, p, US_STATE_MAP[n][1]) # 0 }
    IN  IF found = {} THEN s
        ELSE LET n == CHOOSE x \in found : \A y \in found : x <= y
             IN  sub_state(s, 1, US_STATE_MAP[n][1], US_STATE_MAP[n][2])

\* ^([A-Za-z\s]+)\s+([A-Z]{2})$ matches s
IsCityState(s) ==
    /\ Len(s) >= 4
    /\ IsUpperCh(s[Len(s)]) /\ IsUpperCh(s[Len(s) - 1])
    /\ IsSpace(s[Len(s) - 2])
    /\ \A i \in 1..(Len(s) - 3) : IsAlpha(s[i]) \/ IsSpace(s[i])

\* re.sub(r'\s*,\s*', ', ', s) from position p
RECURSIVE sub_comma(_, _)
sub_comma(s, p) ==
    IF p > Len(s) THEN << >>
    ELSE LET q == SkipSpace(s, p)
         IN  IF q <= Len(s) /\ s[q] = ","
             THEN <<",", " ">> \o sub_comma(s, SkipSpace(s, q + 1))
             ELSE <<s[p]>> \o sub_comma(s, p + 1)

\* re.sub(r'\s+[-|]\s+', ', ', s) from position p
RECURSIVE sub_separator(_, _)
sub_separator(s, p) ==
    IF p > Len(s) THEN << >>
    ELSE LET q == SkipSpace(s, p)
         IN  IF /\ IsSpace(s[p])
                /\ q + 1 <= Len(s)
                /\ s[q] \in {"-", "|"}
                /\ IsSpace(s[q + 1])
             THEN <<",", " ">> \o sub_separator(s, SkipSpace(s, q + 1))
             ELSE <<s[p]>> \o sub_separator(s, p + 1)

\* normalize_location on a str
normalize_location(location) ==
    IF location = << >> THEN location
    ELSE
      LET normalized == join_split(location)
          n2 == abbreviate_state(normalized)
      IN  IF MentionsIndia(normalized) THEN india_rule(normalized)
          ELSE IF /\ IsCityState(n2)
                  /\ SubSeq(n2, Len(n2) - 1, Len(n2)) \in US_STATE_ABBREVS
               THEN strip(SubSeq(n2, 1, Len(n2) - 3)) \o <<",", " ">>
                    \o SubSeq(n2, Len(n2) - 1, Len(n2))
          ELSE IF \/ \E n \in 1..Len(US_STATE_MAP) :
                        strip(n2) = US_STATE_MAP[n][1]
                  \/ strip(n2) \in US_STATE_ABBREVS
               THEN strip(n2) \o <<",", " ", "U", "S", "A">>
          ELSE strip(sub_separator(sub_comma(n2, 1), 1))

-----------------------------------------------------------------------------

(* remove_vendor_names, extract_location_from_company_name *)

\* _VENDOR_NAMES_TO_REMOVE, in lower case
VENDOR_NAMES_TO_REMOVE ==
    { <<"g", "e", "a", "r", "s", "e", "t">>, <<"c", "o", "n", "g", "a">>, <<"m", "u", "e", "l", "s", "o", "f", "t">>, <<"m", "u", "l", "e", "s", "o", "f", "t">>, <<"c", "o", "p", "a", "d", "o">> }

\* the lead-ins of _VENDOR_REMOVAL_PATTERN, optional dots spelled out
VendorLeadIns ==
    { <<"u", "s", "i", "n", "g">>, <<"v", "i", "a">>, <<"w", "i", "t", "h">>, <<"t", "h", "r", "o", "u", "g", "h">>, <<"l", "i", "k", "e">>, <<"t", "o", "o", "l">>,
      <<"p", "l", "a", "t", "f", "o", "r", "m">>, <<"i", "e">>, <<"i", ".", "e">>, <<"i", "e", ".">>, <<"i", ".", "e", ".">>, <<"e", "g">>, <<"e", ".", "g">>,
      <<"e", "g", ".">>, <<"e", ".", "g", ".">> }

\* a vendor name at position q followed by (?=\s*[,\.;\)]|\s*$): the
\* position after the name, 0 when there is no match
VendorEnd(s, q) ==
    LET hits == { q + Len(v) : v \in { w \in VENDOR_NAMES_TO_REMOVE :
                                         MatchAt(s, q, w) } }
        ok == { e \in hits :
                  LET r == SkipSpace(s, e)
                  IN  r > Len(s) \/ s[r] \in {",", ".", ";", ")"} }
    IN  IF ok = {} THEN 0 ELSE CHOOSE e \in ok : TRUE

\* _VENDOR_REMOVAL_PATTERN matched at position p: the position after the
\* match, 0 when there is none.  The lead-in alternative is tried first.
VendorMatchEnd(s, p) ==
    LET lead == { VendorEnd(s, SkipSpace(s, p + Len(l))) :
                    l \in { x \in VendorLeadIns :
                              /\ MatchAt(s, p, x)
                              /\ p + Len(x) <= Len(s)
                              /\ IsSpace(s[p + Len(x)]) } } \ {0}
    IN  IF lead # {} THEN CHOOSE e \in lead : \A x \in lead : e >= x
        ELSE VendorEnd(s, p)

\* _VENDOR_REMOVAL_PATTERN.sub('', s) from position p
RECURSIVE sub_vendor(_, _)
sub_vendor(s, p) ==
    IF p > Len(s) THEN << >>
    ELSE IF VendorMatchEnd(s, p) # 0
         THEN sub_vendor(s, VendorMatchEnd(s, p))
    ELSE <<s[p]>> \o sub_vendor(s, p + 1)

IsBlank(c) == c \in {" ", "\t"}

\* re.sub(r'[ \t]+', ' ', s)
RECURSIVE sub_blanks(_)
sub_blanks(s) ==
    IF s = << >> THEN << >>
    ELSE IF IsBlank(Head(s))
         THEN IF Len(s) > 1 /\ IsBlank(s[2]) THEN sub_blanks(Tail(s))
              ELSE <<" ">> \o sub_blanks(Tail(s))
    ELSE <<Head(s)>> \o sub_blanks(Tail(s))

\* re.sub(r'\s+\.', '.', s) from position p
RECURSIVE sub_space_dot(_, _)
sub_space_dot(s, p) ==
    IF p > Len(s) THEN << >>
    ELSE LET q == SkipSpace(s, p)
         IN  IF IsSpace(s[p]) /\ q <= Len(s) /\ s[q] = "."
             THEN <<".">> \o sub_space_dot(s, q + 1)
             ELSE <<s[p]>> \o sub_space_dot(s, p + 1)

\* re.sub(r',\s*\.', '.', s) from position p
RECURSIVE sub_comma_dot(_, _)
sub_comma_dot(s, p) ==
    IF p > Len(s) THEN << >>
    ELSE LET q == SkipSpace(s, p + 1)
         IN  IF s[p] = "," /\ q <= Len(s) /\ s[q] = "."
             THEN <<".">> \o sub_comma_dot(s, q + 1)
             ELSE <<s[p]>> \o sub_comma_dot(s, p + 1)

\* the positions where r'\s*,\s*$' matches
TrailingCommas(s) ==
    { p \in 1..Len(s) :
        LET q == SkipSpace(s, p)
        IN  q <= Len(s) /\ s[q] = "," /\ SkipSpace(s, q + 1) > Len(s) }

\* re.sub(r'\s*,\s*$', '.', s)
sub_trailing_comma(s) ==
    IF TrailingCommas(s) = {} THEN s
    ELSE SubSeq(s, 1, (CHOOSE p \in TrailingCommas(s) :
                          \A q \in TrailingCommas(s) : p <= q) - 1) \o <<".">>

\* remove_vendor_names on a str
remove_vendor_names(text) ==
    IF text = << >> THEN text
    ELSE strip(rstrip(sub_trailing_comma(sub_comma_dot(
            sub_space_dot(sub_blanks(sub_vendor(text, 1)), 1), 1))))

\* position of the last comma of s, 0 when there is none
RECURSIVE LastComma(_)
LastComma(s) ==
    IF s = << >> THEN 0
    ELSE IF s[Len(s)] = "," THEN Len(s)
    ELSE LastComma(SubSeq(s, 1, Len(s) - 1))

IsLetterOrSpace(c) == IsAlpha(c) \/ IsSpace(c)

\* extract_location_from_company_name on a non-empty str: the location, or
\* "None".  r',\s*([A-Za-z\s]+),\s*([A-Za-z\s]+)\s*$' is searched: the text
\* between the last two commas is the city, the text after the last one the
\* country or state.
extract_location_from_company_name(company_name) ==
    LET c2 == LastComma(company_name)
        c1 == LastComma(SubSeq(company_name, 1, c2 - 1))
        city == SubSeq(company_name, c1 + 1, c2 - 1)
        country_or_state == SubSeq(company_name, c2 + 1, Len(company_name))
    IN  IF /\ c2 # 0 /\ c1 # 0
           /\ city # << >> /\ country_or_state # << >>
           /\ \A i \in 1..Len(city) : IsLetterOrSpace(city[i])
           /\ \A i \in 1..Len(country_or_state) :
                 IsLetterOrSpace(country_or_state[i])
        THEN JStr(normalize_location(
                 strip(city) \o <<",", " ">> \o strip(country_or_state)))
        ELSE JNull

-----------------------------------------------------------------------------

(* chunk_resume.strip_bullet_prefix *)

\* the ASCII members of the bullet class [-*•‣◦⁃∙·]
BulletChars == {"-", "*"}

\* length of the run of bullet characters at the start of s
RECURSIVE BulletRun(_)
BulletRun(s) ==
    IF s # << >> /\ Head(s) \in BulletChars THEN 1 + BulletRun(Tail(s)) ELSE 0

\* BULLET_PREFIX_PATTERN.sub("", s, count=1)
bullet_prefix_sub(s) ==
    LET t == lstrip(s)
        rest == From(t, BulletRun(t) + 1)
    IN  IF BulletRun(t) = 0 \/ rest = << >> THEN s
        ELSE IF IsSpace(Head(rest)) THEN lstrip(rest)
        ELSE IF IsAlnum(Head(rest)) THEN rest
        ELSE s

RECURSIVE strip_bullet_loop(_)
strip_bullet_loop(s) ==
    IF bullet_prefix_sub(s) = s THEN s
    ELSE strip_bullet_loop(bullet_prefix_sub(s))

strip_bullet_prefix(text) == lstrip(strip_bullet_loop(text))

-----------------------------------------------------------------------------
(* Agents *)

\* the agents list, in the order the orchestrator creates it
AgentTypes ==
    <<"header", "summary", "experience", "education", "skills",
      "certifications">>
AgentType == { AgentTypes[i] : i \in 1..Len(AgentTypes) }

\* type(j).__name__
TypeName(j) ==
    CASE j.t = "null" -> "NoneType"
      [] j.t = "num" -> "int"
      [] j.t = "str" -> "str"
      [] j.t = "list" -> "list"
      [] j.t = "obj" -> "dict"

NoAttribute(j, attr) ==
    <<"'", TypeName(j), "' object has no attribute '", attr, "'">>
NotIterable(j) == <<"'", TypeName(j), "' object is not iterable">>

Returned(d) == [raised |-> FALSE, data |-> d]
Raised(m) == [raised |-> TRUE, msg |-> m]

\* (j or '').strip()
StripOr(j) ==
    IF ~Truthy(j) THEN Returned(<< >>)
    ELSE IF IsStr(j) THEN Returned(strip(j.v))
    ELSE Raised(NoAttribute(j, "strip"))

\* the elements a for loop over j visits (a list's elements, a string's
\* characters)
Iter(j) ==
    IF IsList(j) THEN j.v ELSE [i \in 1..Len(j.v) |-> JStr(<<j.v[i]>>)]
CanIter(j) == IsList(j) \/ IsStr(j)

\* [strip_bullet_prefix(item) for item in j if isinstance(item, str)]
StripBullets(j) ==
    LET strs == SelectSeq(Iter(j), IsStr)
    IN  JList([i \in 1..Len(strs) |-> JStr(strip_bullet_prefix(strs[i].v))])

\* the summarySections loop body for one section
clean_summary_section(section) ==
    IF IsDict(section) /\ Truthy(Get(section, "content"))
    THEN Put(section, "content", StripBullets(Get(section, "content")))
    ELSE section

\* a section whose content the list comprehension cannot iterate
BadContent(section) ==
    /\ IsDict(section)
    /\ Truthy(Get(section, "content"))
    /\ ~CanIter(Get(section, "content"))

\* the SUMMARY branch of _clean_extracted_data
clean_summary(data) ==
    LET ps == Get(data, "professionalSummary")
        d1 == Put(data, "professionalSummary", StripBullets(ps))
        ss == Get(d1, "summarySections")
    IN  IF ~CanIter(ps) THEN Raised(NotIterable(ps))
        ELSE IF ~Truthy(ss) THEN Returned(d1)
        ELSE IF ~CanIter(ss) THEN Raised(NotIterable(ss))
        ELSE IF \E i \in 1..Len(Iter(ss)) : BadContent(Iter(ss)[i])
             THEN Raised(NotIterable(Get(
                     Iter(ss)[CHOOSE i \in 1..Len(Iter(ss)) :
                                 /\ BadContent(Iter(ss)[i])
                                 /\ \A j \in 1..(i - 1) :
                                        ~BadContent(Iter(ss)[j])],
                     "content")))
        ELSE IF IsList(ss)
             THEN Returned(Put(d1, "summarySections",
                     JList([i \in 1..Len(ss.v) |->
                               clean_summary_section(ss.v[i])])))
        ELSE Returned(d1)

\* the TypeError of re.search on a value that is not a string
ExpectedString(j) ==
    <<"expected string or bytes-like object, got '", TypeName(j), "'">>

\* `if d.get(key): d[key] = normalize_work_period(d[key])`
normalize_period_field(d, key) ==
    LET v == Get(d, key)
    IN  IF ~Truthy(v) THEN Returned(d)
        ELSE IF ~IsStr(v) THEN Raised(NoAttribute(v, "replace"))
        ELSE Returned(Put(d, key, JStr(normalize_work_period(v.v))))

\* `if d.get(key): d[key] = normalize_location(d[key])`
normalize_location_field(d, key) ==
    LET v == Get(d, key)
    IN  IF ~Truthy(v) THEN Returned(d)
        ELSE IF ~IsStr(v) THEN Raised(NoAttribute(v, "split"))
        ELSE Returned(Put(d, key, JStr(normalize_location(v.v))))

\* sanitize_responsibilities([strip_bullet_prefix(item) for item in items
\*                            if isinstance(item, str)])
sanitize_bullets(items) ==
    LET strs == SelectSeq(items, IsStr)
    IN  JList([i \in 1..Len(strs) |->
                 JStr(remove_vendor_names(strip_bullet_prefix(strs[i].v)))])

\* `if d.get(key) and isinstance(d[key], list): d[key] = sanitize...`
sanitize_field(d, key) ==
    IF Truthy(Get(d, key)) /\ IsList(Get(d, key))
    THEN Put(d, key, sanitize_bullets(Get(d, key).v))
    ELSE d

\* `if extracted_loc: job["location"] = extracted_loc`
company_location(job, extracted_loc) ==
    IF Truthy(extracted_loc) THEN Returned(Put(job, "location", extracted_loc))
    ELSE Returned(job)

\* FIX 5c: the location taken from the company name when the job has none
location_from_company(job) ==
    LET company == Get(job, "companyName")
    IN  IF Truthy(Get(job, "location")) \/ ~Truthy(company) THEN Returned(job)
        ELSE IF ~IsStr(company) THEN Raised(ExpectedString(company))
        ELSE company_location(job,
                 extract_location_from_company_name(company.v))

\* the body of the subsections loop for one subsection
clean_subsection(subsection) ==
    IF /\ IsDict(subsection)
       /\ Truthy(Get(subsection, "content"))
       /\ IsList(Get(subsection, "content"))
    THEN Put(subsection, "content", StripBullets(Get(subsection, "content")))
    ELSE subsection

\* "Normalise subsections"
clean_subsections(job) ==
    LET ss == Get(job, "subsections")
    IN  IF Truthy(ss) /\ IsList(ss)
        THEN Put(job, "subsections",
                 JList([i \in 1..Len(ss.v) |-> clean_subsection(ss.v[i])]))
        ELSE job

\* the project after its location was normalized: projectResponsibilities
project_responsibilities(p2) ==
    IF p2.raised THEN p2
    ELSE Returned(sanitize_field(p2.data, "projectResponsibilities"))

\* the project after its period was normalized: projectLocation and on
project_location(p1) ==
    IF p1.raised THEN p1
    ELSE project_responsibilities(
             normalize_location_field(p1.data, "projectLocation"))

\* the body of the projects loop for one project
clean_project(project) ==
    IF ~IsDict(project) THEN Returned(project)
    ELSE project_location(normalize_period_field(project, "period"))

\* the end of a loop over the entries of d[key], given the outcome of the
\* loop body for every entry: the first entry that raised ends the loop
loop_outcome(d, key, outcomes) ==
    LET bad == { i \in 1..Len(outcomes) : outcomes[i].raised }
    IN  IF bad # {} THEN outcomes[CHOOSE i \in bad : \A j \in bad : i <= j]
        ELSE Returned(Put(d, key,
                 JList([i \in 1..Len(outcomes) |-> outcomes[i].data])))

\* "Normalise projects": the first project that raises ends the loop
clean_projects(job) ==
    LET ps == Get(job, "projects")
    IN  IF ~(Truthy(ps) /\ IsList(ps)) THEN Returned(job)
        ELSE loop_outcome(job, "projects",
                 [i \in 1..Len(ps.v) |-> clean_project(ps.v[i])])

\* "Strip non-dict projects from the list"
strip_non_dict_projects(job) ==
    IF IsList(Get(job, "projects"))
    THEN Put(job, "projects", JList(SelectSeq(Get(job, "projects").v, IsDict)))
    ELSE job

\* enforce_tech_responsibility_rules
enforce_tech_responsibility_rules(job) ==
    LET has_projects == Truthy(Get(job, "projects"))
        j1 == IF has_projects /\ Truthy(Get(job, "keyTechnologies"))
              THEN Put(job, "keyTechnologies", EmptyStr) ELSE job
    IN  IF has_projects /\ Truthy(Get(j1, "responsibilities"))
        THEN Put(j1, "responsibilities", EmptyList) ELSE j1

\* the body of the loop of enforce_project_period_dedup for one project
dedup_project(project, job_period) ==
    IF ~IsDict(project) THEN Returned(project)
    ELSE LET proj_period == StripOr(Get(project, "period"))
         IN  IF proj_period.raised THEN proj_period
             ELSE IF proj_period.data # << >> /\ proj_period.data = job_period
                  THEN Returned(Put(project, "period", EmptyStr))
             ELSE Returned(project)

\* enforce_project_period_dedup as it would be if it cleared every period
\* that is set
enforce_project_period_dedup_ClearAll(job) ==
    LET projects == Get(job, "projects")
    IN  IF ~IsList(projects) THEN Returned(job)
        ELSE Returned(Put(job, "projects",
                JList([i \in 1..Len(projects.v) |->
                    IF IsDict(projects.v[i])
                       /\ Truthy(Get(projects.v[i], "period"))
                    THEN Put(projects.v[i], "period", EmptyStr)
                    ELSE projects.v[i]])))

\* enforce_project_period_dedup
enforce_project_period_dedup(job) ==
    LET job_period == StripOr(Get(job, "workPeriod"))
        projects == Get(job, "projects")
        bad == { i \in 1..Len(projects.v) :
                   dedup_project(projects.v[i], job_period.data).raised }
    IN  IF job_period.raised THEN job_period
        ELSE IF job_period.data = << >> \/ ~Truthy(projects)
                \/ ~IsList(projects)
             THEN Returned(job)
        ELSE IF bad # {}
             THEN dedup_project(
                      projects.v[CHOOSE i \in bad : \A j \in bad : i <= j],
                      job_period.data)
        ELSE Returned(Put(job, "projects",
                JList([i \in 1..Len(projects.v) |->
                    dedup_project(projects.v[i], job_period.data).data])))

\* the job after its projects were cleaned: the final rules
job_rules(j5) ==
    IF j5.raised THEN j5
    ELSE enforce_project_period_dedup(
             enforce_tech_responsibility_rules(
                 strip_non_dict_projects(j5.data)))

\* the job after its location was normalized: responsibilities,
\* subsections, projects and on
job_lists(j3) ==
    IF j3.raised THEN j3
    ELSE job_rules(clean_projects(clean_subsections(
             sanitize_field(j3.data, "responsibilities"))))

\* the job after the company name was searched for a location
job_location(j2) ==
    IF j2.raised THEN j2
    ELSE job_lists(normalize_location_field(j2.data, "location"))

\* the job after its workPeriod was normalized
job_company(j1) ==
    IF j1.raised THEN j1
    ELSE job_location(location_from_company(j1.data))

\* the body of the employmentHistory loop for one entry
clean_job(job) ==
    IF ~IsDict(job) THEN Returned(job)
    ELSE job_company(normalize_period_field(job, "workPeriod"))

\* the loop over the entries (the first entry that raises ends it) and the
\* final removal of non-dict entries
experience_outcome(data, outcomes) ==
    LET bad == { i \in 1..Len(outcomes) : outcomes[i].raised }
        cleaned == [i \in 1..Len(outcomes) |-> outcomes[i].data]
    IN  IF bad # {} THEN outcomes[CHOOSE i \in bad : \A j \in bad : i <= j]
        ELSE Returned(Put(data, "employmentHistory",
                          JList(SelectSeq(cleaned, IsDict))))

\* the EXPERIENCE branch of _clean_extracted_data: the guards on the shape
\* of employmentHistory and the loop over its entries
clean_experience(data) ==
    LET eh == Get(data, "employmentHistory")
        emp_history ==
            IF IsStr(eh) THEN EmptyList
            ELSE IF IsDict(eh) THEN JList(<<eh>>)
            ELSE eh
    IN  IF ~CanIter(emp_history) THEN Raised(NotIterable(emp_history))
        ELSE experience_outcome(data,
                 [i \in 1..Len(emp_history.v) |->
                    clean_job(emp_history.v[i])])

\* a for loop can visit j: a list, a string or a dict
IsIterable(j) == IsList(j) \/ IsStr(j) \/ IsDict(j)

\* the education entry after its location was normalized
education_date(e1) ==
    IF e1.raised THEN e1 ELSE normalize_period_field(e1.data, "date")

\* the body of the education loop for one entry
clean_education_entry(edu) ==
    IF ~IsDict(edu) THEN Returned(edu)
    ELSE education_date(normalize_location_field(edu, "location"))

\* the EDUCATION branch of _clean_extracted_data; the characters of a
\* string and the keys of a dict are not dicts and are skipped
clean_education(data) ==
    LET ed == Get(data, "education")
    IN  IF ~IsIterable(ed) THEN Raised(NotIterable(ed))
        ELSE IF ~IsList(ed) THEN Returned(data)
        ELSE loop_outcome(data, "education",
                 [i \in 1..Len(ed.v) |-> clean_education_entry(ed.v[i])])

\* the skillCategories loop body for one category
clean_skill_category(category) ==
    IF IsDict(category) /\ ~IsList(Get(category, "subCategories"))
    THEN Put(category, "subCategories", EmptyList)
    ELSE category

\* the SKILLS branch of _clean_extracted_data
clean_skills(data) ==
    LET sc == Get(data, "skillCategories")
    IN  IF ~CanIter(sc) THEN Raised(NotIterable(sc))
        ELSE IF IsList(sc)
             THEN Returned(Put(data, "skillCategories",
                     JList([i \in 1..Len(sc.v) |->
                               clean_skill_category(sc.v[i])])))
        ELSE Returned(data)

-----------------------------------------------------------------------------
(* extract_certification_fields *)

\* w stands at position p of s, in the same case
ExactAt(s, p, w) ==
    /\ p >= 1
    /\ p + Len(w) - 1 <= Len(s)
    /\ SubSeq(s, p, p + Len(w) - 1) = w

\* the words of r'\b(?:issued|obtained|date|expires?|expiration|number|#)\b'
LeakWords ==
    { <<"i", "s", "s", "u", "e", "d">>, <<"o", "b", "t", "a", "i", "n", "e", "d">>, <<"d", "a", "t", "e">>, <<"e", "x", "p", "i", "r", "e">>, <<"e", "x", "p", "i", "r", "e", "s">>,
      <<"e", "x", "p", "i", "r", "a", "t", "i", "o", "n">>, <<"n", "u", "m", "b", "e", "r">> }

\* \b#\b matches at p
HashAt(s, p) ==
    /\ s[p] = "#"
    /\ p > 1 /\ IsWord(s[p - 1])
    /\ p < Len(s) /\ IsWord(s[p + 1])

\* re.search(r'\b(?:issued|...|#)\b', name, re.IGNORECASE)
name_has_extra_fields(name) ==
    \E p \in 1..Len(name) :
        \/ \E w \in LeakWords : WordAt(name, p, w)
        \/ HashAt(name, p)

CleanNameWords ==
    { <<"I", "s", "s", "u", "e", "d">>, <<"i", "s", "s", "u", "e", "d">>, <<"O", "b", "t", "a", "i", "n", "e", "d">>, <<"o", "b", "t", "a", "i", "n", "e", "d">>, <<"F", "r", "o", "m">>,
      <<"f", "r", "o", "m">>, <<"D", "a", "t", "e">>, <<"d", "a", "t", "e">>, <<"b", "y">> }

\* the lengths n of name[:n] with which
\* r'^(.+?)(?:\s+(?:Issued|...|by)\b)' can match
clean_name_ends(name) ==
    { n \in 1..Len(name) :
        /\ \A i \in 1..n : name[i] # "\n"
        /\ n + 1 <= Len(name)
        /\ IsSpace(name[n + 1])
        /\ \E w \in CleanNameWords :
              /\ ExactAt(name, SkipSpace(name, n + 1), w)
              /\ \/ SkipSpace(name, n + 1) + Len(w) > Len(name)
                 \/ ~IsWord(name[SkipSpace(name, n + 1) + Len(w)]) }

\* `if clean_name_match: cert['name'] = group(1).strip(' -()')`
name_field(cert, name) ==
    IF clean_name_ends(name) = {} THEN cert
    ELSE Put(cert, "name",
             JStr(strip_chars(SubSeq(name, 1, MinOf(clean_name_ends(name))),
                              {" ", "-", "(", ")"})))

\* the characters from a up to b, b excluded, are whitespace
WsRun(s, a, b) == \A i \in a..(b - 1) : IsSpace(s[i])

\* the position after the keyword that one of the alternatives
\* Issued\s+by | issued\s+by | From | from | by matches at p (at most one)
issuer_keyword_ends(s, p) ==
    { SkipSpace(s, p + 6) + 2 :
        w \in { x \in { <<"I", "s", "s", "u", "e", "d">>, <<"i", "s", "s", "u", "e", "d">> } :
                  /\ ExactAt(s, p, x)
                  /\ SkipSpace(s, p + 6) > p + 6
                  /\ ExactAt(s, SkipSpace(s, p + 6), <<"b", "y">>) } }
    \cup { p + Len(w) :
             w \in { x \in { <<"F", "r", "o", "m">>, <<"f", "r", "o", "m">>, <<"b", "y">> } : ExactAt(s, p, x) } }

\* [^,\n(]
IssuerChar(c) == c \notin {",", "\n", "("}

\* the ways r'\s*[:\-]?\s*([^,\n(]+)' can match from e: where the first run
\* of whitespace ends, whether the colon or hyphen is taken, where the group
\* starts
issuer_tails(s, e) ==
    { c \in (e..(Len(s) + 1)) \X {0, 1} \X (e..(Len(s) + 1)) :
        /\ WsRun(s, e, c[1])
        /\ c[2] = 1 => (c[1] <= Len(s) /\ s[c[1]] \in {":", "-"})
        /\ c[1] + c[2] <= c[3]
        /\ WsRun(s, c[1] + c[2], c[3])
        /\ c[3] <= Len(s)
        /\ IssuerChar(s[c[3]]) }

\* the order in which the greedy quantifiers try the ways: the longer
\* first run, then the taken colon, then the longer second run
TailBefore(c, d) ==
    \/ c[1] > d[1]
    \/ c[1] = d[1] /\ c[2] > d[2]
    \/ c[1] = d[1] /\ c[2] = d[2] /\ c[3] >= d[3]

\* the group ([^,\n(]+) that starts at g
issuer_group(s, g) ==
    SubSeq(s, g,
           MinOf({ i \in g..(Len(s) + 1) :
                     i = Len(s) + 1 \/ ~IssuerChar(s[i]) }) - 1)

\* the group of the match whose keyword ends at e
issuer_at(s, tails) ==
    issuer_group(s, (CHOOSE c \in tails :
                        \A d \in tails : TailBefore(c, d))[3])

\* the positions at which
\* r'(?:Issued\s+by|issued\s+by|From|from|by)\s*[:\-]?\s*([^,\n(]+)' matches
issuer_starts(name) ==
    { p \in 1..Len(name) :
        \E e \in issuer_keyword_ends(name, p) : issuer_tails(name, e) # {} }

\* the issuer found at the leftmost position p
issuer_found(name, p) ==
    issuer_at(name,
              issuer_tails(name, CHOOSE e \in issuer_keyword_ends(name, p) :
                                     TRUE))

\* "Extract issuer if not already present"
issuer_field(cert, name) ==
    IF ~Truthy(Get(cert, "issuedBy")) /\ issuer_starts(name) # {}
    THEN Put(cert, "issuedBy",
             JStr(strip(issuer_found(name, MinOf(issuer_starts(name))))))
    ELSE cert

\* where the group starts after r'\s*[:\-]?\s*' from e, for a group that
\* starts with a letter or a digit
group_start(s, e) ==
    IF SkipSpace(s, e) <= Len(s) /\ s[SkipSpace(s, e)] \in {":", "-"}
    THEN SkipSpace(s, SkipSpace(s, e) + 1)
    ELSE SkipSpace(s, e)

\* position after the run of letters that starts at i
RECURSIVE SkipLetters(_, _)
SkipLetters(s, i) ==
    IF i <= Len(s) /\ IsAlpha(s[i]) THEN SkipLetters(s, i + 1) ELSE i

\* position after at most n digits from i
RECURSIVE SkipDigits(_, _, _)
SkipDigits(s, i, n) ==
    IF n > 0 /\ i <= Len(s) /\ IsDigit(s[i]) THEN SkipDigits(s, i + 1, n - 1)
    ELSE i

\* the position after r'([A-Za-z]{3,}\s+\d{4}|\d{2}/\d{2,4})' matched at g
\* (at most one)
date_group_ends(s, g) ==
    { SkipSpace(s, SkipLetters(s, g)) + 4 :
        x \in { y \in {1} :
                  /\ SkipLetters(s, g) >= g + 3
                  /\ SkipSpace(s, SkipLetters(s, g)) > SkipLetters(s, g)
                  /\ YearAt(s, SkipSpace(s, SkipLetters(s, g))) } }
    \cup { SkipDigits(s, g + 3, 4) :
             x \in { y \in {1} :
                       /\ SkipDigits(s, g, 2) = g + 2
                       /\ g + 2 <= Len(s) /\ s[g + 2] = "/"
                       /\ SkipDigits(s, g + 3, 4) >= g + 5 } }

\* the group of a date pattern whose keyword ends at one of ends, tried in
\* this order, none: << >> as a set member stands for "no match"
RECURSIVE date_after(_, _)
date_after(s, ends) ==
    IF ends = << >> THEN { }
    ELSE IF date_group_ends(s, group_start(s, Head(ends))) # {}
    THEN { SubSeq(s, group_start(s, Head(ends)),
                  MinOf(date_group_ends(s, group_start(s, Head(ends)))) - 1) }
    ELSE date_after(s, Tail(ends))

\* the keyword ends of r'(?:Obtained|obtained|Date|date|Issued)' at p
obtained_keyword_ends(s, p) ==
    LET ws == { x \in { <<"O", "b", "t", "a", "i", "n", "e", "d">>, <<"o", "b", "t", "a", "i", "n", "e", "d">>, <<"D", "a", "t", "e">>, <<"d", "a", "t", "e">>,
                        <<"I", "s", "s", "u", "e", "d">> } : ExactAt(s, p, x) }
    IN  IF ws = {} THEN << >> ELSE << p + Len(CHOOSE w \in ws : TRUE) >>

\* the keyword ends of r'(?:Expir(?:es?|ation)|expires?)' at p, ignoring
\* case, in the order the alternatives are tried
expiration_keyword_ends(s, p) ==
    (IF MatchAt(s, p, <<"e", "x", "p", "i", "r", "e", "s">>) THEN << p + 7 >> ELSE << >>)
    \o (IF MatchAt(s, p, <<"e", "x", "p", "i", "r", "e">>) THEN << p + 6 >> ELSE << >>)
    \o (IF MatchAt(s, p, <<"e", "x", "p", "i", "r", "a", "t", "i", "o", "n">>) THEN << p + 10 >> ELSE << >>)

\* the group of the leftmost match, given for every position the group
\* matched there (a set with at most one member)
leftmost(groups) ==
    LET ps == { p \in DOMAIN groups : groups[p] # {} }
    IN  IF ps = {} THEN { }
        ELSE groups[MinOf(ps)]

\* `if not cert.get(key): m = re.search(...); if m: cert[key] = group`
found_field(cert, key, found) ==
    IF ~Truthy(Get(cert, key)) /\ found # {}
    THEN Put(cert, key, JStr(strip(CHOOSE g \in found : TRUE)))
    ELSE cert

\* "Extract date obtained if not already present"
date_field(cert, name) ==
    found_field(cert, "dateObtained",
        leftmost([p \in 1..Len(name) |->
                    date_after(name, obtained_keyword_ends(name, p))]))

\* the keyword ends of
\* r'(?:Certification|certification|Number|number|ID|id|#)' at p
number_keyword_ends(s, p) ==
    { p + Len(w) :
        w \in { x \in { <<"C", "e", "r", "t", "i", "f", "i", "c", "a", "t", "i", "o", "n">>, <<"c", "e", "r", "t", "i", "f", "i", "c", "a", "t", "i", "o", "n">>, <<"N", "u", "m", "b", "e", "r">>,
                        <<"n", "u", "m", "b", "e", "r">>, <<"I", "D">>, <<"i", "d">>, <<"#">> } :
                  ExactAt(s, p, x) } }

\* [A-Z0-9]
IsUpperOrDigit(c) == IsUpperCh(c) \/ IsDigit(c)

\* position after the run of [A-Z0-9\-] that starts at i
RECURSIVE SkipNumberChars(_, _)
SkipNumberChars(s, i) ==
    IF i <= Len(s) /\ (IsUpperOrDigit(s[i]) \/ s[i] = "-")
    THEN SkipNumberChars(s, i + 1)
    ELSE i

\* the group ([A-Z0-9][A-Z0-9\-]+) at g (at most one)
number_group(s, g) ==
    IF /\ g <= Len(s)
       /\ IsUpperOrDigit(s[g])
       /\ SkipNumberChars(s, g + 1) > g + 1
    THEN { SubSeq(s, g, SkipNumberChars(s, g + 1) - 1) }
    ELSE { }

\* the number group after the keyword that ends at one of ends
number_after(s, ends) ==
    IF ends = {} THEN { }
    ELSE number_group(s, group_start(s, CHOOSE e \in ends : TRUE))

\* "Extract cert number if not already present"
number_field(cert, name) ==
    found_field(cert, "certificationNumber",
        leftmost([p \in 1..Len(name) |->
                    number_after(name, number_keyword_ends(name, p))]))

\* "Extract expiration if not already present"
expiration_field(cert, name) ==
    found_field(cert, "expirationDate",
        leftmost([p \in 1..Len(name) |->
                    date_after(name, expiration_keyword_ends(name, p))]))

\* the repairs of extract_certification_fields in the order of the code,
\* every search on the name as it was given
repair_fields(cert, name) ==
    expiration_field(number_field(date_field(issuer_field(
        name_field(cert, name), name), name), name), name)

\* extract_certification_fields(cert)
extract_certification_fields(cert) ==
    IF ~IsStr(GetOr(cert, "name", EmptyStr))
    THEN Raised(ExpectedString(GetOr(cert, "name", EmptyStr)))
    ELSE IF ~name_has_extra_fields(GetOr(cert, "name", EmptyStr).v)
    THEN Returned(cert)
    ELSE Returned(repair_fields(cert, GetOr(cert, "name", EmptyStr).v))

\* the certification after its dates were normalized: FIX #14
certification_fields(c2) ==
    IF c2.raised THEN c2 ELSE extract_certification_fields(c2.data)

\* the certification after dateObtained was normalized
certification_expiration(c1) ==
    IF c1.raised THEN c1
    ELSE certification_fields(normalize_period_field(c1.data,
                                                     "expirationDate"))

\* the body of the certifications loop for one element: cert.get is called
\* on every element, dict or not
clean_certification(cert) ==
    IF ~IsDict(cert) THEN Raised(NoAttribute(cert, "get"))
    ELSE certification_expiration(normalize_period_field(cert,
                                                         "dateObtained"))

\* the CERTIFICATIONS branch of _clean_extracted_data; the characters of a
\* string and the keys of a dict are strings, and cert.get raises on the
\* first of them
clean_certifications(data) ==
    LET cs == Get(data, "certifications")
    IN  IF ~IsIterable(cs) THEN Raised(NotIterable(cs))
        ELSE IF ~IsList(cs) THEN Raised(NoAttribute(EmptyStr, "get"))
        ELSE loop_outcome(data, "certifications",
                 [i \in 1..Len(cs.v) |-> clean_certification(cs.v[i])])

\* ResumeAgent._clean_extracted_data.  Each branch condition is
\* `self.agent_type == X and data.get(field)`: data.get is evaluated (and
\* raises on a non-dict) only when an earlier conjunct did not decide.
clean_extracted_data(agent_type, data) ==
    IF agent_type = "header" THEN Returned(data)
    ELSE IF ~IsDict(data) THEN Raised(NoAttribute(data, "get"))
    ELSE IF agent_type = "summary" /\ Truthy(Get(data, "professionalSummary"))
         THEN clean_summary(data)
    ELSE IF agent_type = "experience"
            /\ Truthy(Get(data, "employmentHistory"))
         THEN clean_experience(data)
    ELSE IF agent_type = "education" /\ Truthy(Get(data, "education"))
         THEN clean_education(data)
    ELSE IF agent_type = "skills" /\ Truthy(Get(data, "skillCategories"))
         THEN clean_skills(data)
    ELSE IF agent_type = "certifications"
            /\ Truthy(Get(data, "certifications"))
         THEN clean_certifications(data)
    ELSE Returned(data)

\* ResumeAgent._create_error_result
create_error_result(agent_type, error_message) ==
    [agent_type |-> agent_type, data |-> EmptyDict, success |-> FALSE,
     error_message |-> JStr(error_message)]

\* the AgentResult for cleaned data; an exception of the cleaning leaves
\* the function
cleaned_or_raise(agent_type, cleaned) ==
    IF cleaned.raised THEN cleaned
    ELSE [agent_type |-> agent_type, data |-> cleaned.data,
          success |-> TRUE, error_message |-> JNull]

\* the AgentResult for cleaned data; an exception of the cleaning is caught
\* by `except Exception`
cleaned_or_error(agent_type, cleaned) ==
    IF cleaned.raised THEN create_error_result(agent_type, cleaned.msg)
    ELSE [agent_type |-> agent_type, data |-> cleaned.data,
          success |-> TRUE, error_message |-> JNull]

\* process as it would be without the `except Exception` clause: only a
\* JSON parse error is turned into a result, every other exception leaves
\* the function
process_NoCatchAll(agent_type, response) ==
    CASE response.kind = "raise" -> Raised(response.msg)
      [] response.kind = "no_tool_call" ->
            Raised(<<"'NoneType' object is not subscriptable">>)
      [] response.kind = "bad_json" ->
            create_error_result(agent_type,
                <<"JSON parsing failed: ">> \o response.msg)
      [] response.kind = "json" ->
            cleaned_or_raise(agent_type,
                clean_extracted_data(agent_type, response.value))

\* ResumeAgent.process from the point where the external call returns or
\* raises.  response is what the capability did:
\*   [kind |-> "raise", msg |-> str(e)]    the call raised e
\*   [kind |-> "no_tool_call"]             a response without tool_calls
\*   [kind |-> "bad_json", msg |-> str(e)] arguments that json.loads rejects
\*   [kind |-> "json", value |-> j]        arguments that parse to j
process(agent_type, response) ==
    CASE response.kind = "raise" ->
            create_error_result(agent_type, response.msg)
      [] response.kind = "no_tool_call" ->
            create_error_result(agent_type,
                <<"'NoneType' object is not subscriptable">>)
      [] response.kind = "bad_json" ->
            create_error_result(agent_type,
                <<"JSON parsing failed: ">> \o response.msg)
      [] response.kind = "json" ->
            cleaned_or_error(agent_type,
                clean_extracted_data(agent_type, response.value))

-----------------------------------------------------------------------------
(* Orchestrator helpers *)

STANDARD_ORDER ==
    <<"header", "summary", "experience", "education", "skills",
      "certifications">>
META_KEYS == {"integrity_check", "integrity_warning", "Uncategorized"}

\* the iteration orders a set of three strings can have
MetaOrders ==
    { o \in [1..3 -> META_KEYS] : \A i, j \in 1..3 : i # j => o[i] # o[j] }

\* the [k, v] pairs of d for the keys of the sequence keys that d has, in
\* the order of keys
PairsFor(d, keys) ==
    LET ks == SelectSeq(keys, LAMBDA k : DictHas(d, k))
    IN  [i \in 1..Len(ks) |-> [k |-> ks[i], v |-> DictGet(d, ks[i])]]

InSeq(x, q) == \E i \in 1..Len(q) : q[i] = x

\* the reordering as it would be without the loop that adds the keys
\* outside STANDARD_ORDER
reorder_sections_to_standard_StandardOnly(secs, meta) ==
    PairsFor(secs, STANDARD_ORDER) \o PairsFor(secs, meta)

\* resume_agents.reorder_sections_to_standard; meta is the order in which
\* `for key in META_KEYS` visits the set
reorder_sections_to_standard(secs, meta) ==
    LET original_order ==
            SelectSeq(DictKeys(secs), LAMBDA k : k \notin META_KEYS)
        standard == PairsFor(secs, STANDARD_ORDER)
        extra == PairsFor(secs, SelectSeq(original_order,
                              LAMBDA k : ~InSeq(k, STANDARD_ORDER)))
        metas == PairsFor(secs, meta)
    IN  standard \o extra \o metas

ContextChars == 1000
HeaderMarker == "\n\n--- HEADER SECTION ---\n"

\* the input of one agent as it would be without the rule that gives the
\* certifications agent the full resume
agent_input_CertificationsChunked(at, secs, text) ==
    IF /\ DictHas(secs, at)
       /\ Truthy(DictGet(secs, at))
       /\ strip(DictGet(secs, at).v) # << >>
    THEN IF at = "header"
         THEN Prefix(text, ContextChars) \o <<HeaderMarker>>
              \o strip(DictGet(secs, at).v)
         ELSE strip(DictGet(secs, at).v)
    ELSE text

\* the input of one agent in _prepare_agent_inputs
agent_input(at, secs, text) ==
    IF at = "certifications" THEN text
    ELSE IF /\ DictHas(secs, at)
            /\ Truthy(DictGet(secs, at))
            /\ strip(DictGet(secs, at).v) # << >>
         THEN IF at = "header"
              THEN Prefix(text, ContextChars) \o <<HeaderMarker>>
                   \o strip(DictGet(secs, at).v)
              ELSE strip(DictGet(secs, at).v)
    ELSE text

\* the strategy label of one agent in _prepare_agent_inputs
agent_strategy(at, secs) ==
    IF at = "certifications" THEN "full_resume_always"
    ELSE IF /\ DictHas(secs, at)
            /\ Truthy(DictGet(secs, at))
            /\ strip(DictGet(secs, at).v) # << >>
         THEN IF at = "header" THEN "chunked_with_context"
              ELSE "chunked_section"
    ELSE "full_resume_fallback"

\* MultiAgentResumeProcessor._prepare_agent_inputs; text is the raw text
prepare_agent_inputs(secs, text) ==
    [inputs |-> [at \in AgentType |-> agent_input(at, secs, text)],
     strategy |-> [at \in AgentType |-> agent_strategy(at, secs)]]

EmptyRecord ==
    [name |-> EmptyStr, title |-> EmptyStr, requisitionNumber |-> EmptyStr,
     professionalSummary |-> EmptyList, summarySections |-> EmptyList,
     subsections |-> EmptyList, employmentHistory |-> EmptyList,
     education |-> EmptyList, certifications |-> EmptyList,
     technicalSkills |-> EmptyDict, skillCategories |-> EmptyList]

\* _norm inside _combine_agent_results
norm(v) == lower(collapse_ws(strip(v)))

\* cleaned_name or raw_name
name_or(cleaned_name, raw_name) ==
    IF cleaned_name # << >> THEN cleaned_name ELSE raw_name

\* the name as it would be if the normalized name were used alone
merged_name_NoFallback(raw_name) == normalize_person_name(raw_name)

\* normalize_person_name(raw_name) or raw_name
merged_name(raw_name) == name_or(normalize_person_name(raw_name), raw_name)

\* one iteration of the loop of _combine_agent_results; st holds combined,
\* header_title, summary_title and whether an exception is propagating
combine_step(st, result) ==
    LET d == result.data
        at == result.agent_type
    IN
    IF st.raised THEN st
    ELSE IF ~IsDict(d) THEN [st EXCEPT !.raised = TRUE,
                                       !.msg = NoAttribute(d, "get")]
    ELSE
    CASE at = "header" ->
           LET t == StripOr(Get(d, "title"))
               n == StripOr(Get(d, "name"))
           IN  IF t.raised THEN [st EXCEPT !.raised = TRUE, !.msg = t.msg]
               ELSE IF n.raised
                    THEN [st EXCEPT !.raised = TRUE, !.msg = n.msg]
               ELSE [st EXCEPT
                       !.header_title = t.data,
                       !.combined.name = JStr(merged_name(n.data)),
                       !.combined.requisitionNumber =
                           GetOr(d, "requisitionNumber", EmptyStr)]
      [] at = "summary" ->
           LET t == StripOr(Get(d, "title"))
           IN  IF t.raised THEN [st EXCEPT !.raised = TRUE, !.msg = t.msg]
               ELSE [st EXCEPT
                       !.summary_title = t.data,
                       !.combined.professionalSummary =
                           GetOr(d, "professionalSummary", EmptyList),
                       !.combined.summarySections =
                           GetOr(d, "summarySections", EmptyList),
                       !.combined.subsections =
                           GetOr(d, "summarySections", EmptyList)]
      [] at = "experience" ->
           [st EXCEPT !.combined.employmentHistory =
                          GetOr(d, "employmentHistory", EmptyList)]
      [] at = "education" ->
           [st EXCEPT !.combined.education = GetOr(d, "education", EmptyList)]
      [] at = "skills" ->
           [st EXCEPT
              !.combined.technicalSkills =
                  GetOr(d, "technicalSkills", EmptyDict),
              !.combined.skillCategories =
                  GetOr(d, "skillCategories", EmptyList)]
      [] at = "certifications" ->
           [st EXCEPT !.combined.certifications =
                          GetOr(d, "certifications", EmptyList)]

RECURSIVE combine_loop(_, _)
combine_loop(st, rs) ==
    IF rs = << >> THEN st
    ELSE combine_loop(combine_step(st, Head(rs)), Tail(rs))

\* the title as it would be if the header's title won whenever it is
\* present
resolve_title_PreferHeader(header_title, summary_title) ==
    IF header_title # << >> THEN header_title ELSE summary_title

\* the title chosen after the loop of _combine_agent_results
resolve_title(header_title, summary_title) ==
    IF norm(header_title) # << >> /\ norm(summary_title) # << >>
    THEN IF norm(header_title) = norm(summary_title) THEN header_title
         ELSE << >>
    ELSE IF header_title # << >> THEN header_title
    ELSE summary_title

\* _combine_agent_results as it would be if the merge switch were keyed on
\* the position of a result in the list instead of its own agent_type
combine_agent_results_ByPosition(rs) ==
    LET st == combine_loop([raised |-> FALSE, msg |-> << >>,
                            combined |-> EmptyRecord,
                            header_title |-> << >>,
                            summary_title |-> << >>],
                           [i \in 1..Len(rs) |->
                               [rs[i] EXCEPT !.agent_type = AgentTypes[i]]])
    IN  IF st.raised THEN Raised(st.msg)
        ELSE Returned([st.combined EXCEPT !.title =
                 JStr(resolve_title(st.header_title, st.summary_title))])

\* MultiAgentResumeProcessor._combine_agent_results on the list rs
combine_agent_results(rs) ==
    LET st == combine_loop([raised |-> FALSE, msg |-> << >>,
                            combined |-> EmptyRecord,
                            header_title |-> << >>,
                            summary_title |-> << >>], rs)
    IN  IF st.raised THEN Raised(st.msg)
        ELSE Returned([st.combined EXCEPT !.title =
                 JStr(resolve_title(st.header_title, st.summary_title))])

-----------------------------------------------------------------------------
(* Inputs of a run *)

SampleText == <<"J", "o", "\n", "a", " ", "b">>

\* the raw_text arguments: a string, or a value that is not a string
RawTexts == {JStr(SampleText), JNum}

IntegrityCheck == [k |-> "integrity_check", v |-> EmptyDict]

\* a chunker result in which headings were found: every section key is
\* present, a section that was not detected is None
FullMap(vals) ==
    [i \in 1..Len(STANDARD_ORDER) |->
        [k |-> STANDARD_ORDER[i], v |-> vals[STANDARD_ORDER[i]]]]
    \o <<IntegrityCheck>>

\* results chunk_resume_from_bold_headings can return for the text: no
\* heading found, every section found, only a summary found
ChunkSamples(text) ==
    { <<[k |-> "Uncategorized",
         v |-> IF strip(text) = << >> THEN JNull ELSE JStr(strip(text))],
        IntegrityCheck>>,
      FullMap([key \in AgentType |->
                 IF key = "header" THEN JStr(<<"J", "o">>)
                 ELSE JStr(<<"a", " ", "b">>)]),
      FullMap([key \in AgentType |->
                 IF key = "summary" THEN JStr(<<"a", " ", "b">>)
                 ELSE JNull]) }

\* chunk_resume_from_bold_headings(raw_text) as the orchestrator sees it:
\* the set of its possible outcomes.  A raw_text that is not a string makes
\* it raise (raw_text.splitlines in _detect_headers).
chunk_outcomes(raw) ==
    IF IsStr(raw) THEN { Returned(c) : c \in ChunkSamples(raw.v) }
    ELSE { Raised(NoAttribute(raw, "splitlines")) }

StrDev == <<"D", "e", "v">>
StrDevLower == <<" ", "d", "e", "v">>
StrQA == <<"Q", "A">>

HeaderPayloads ==
    { JObj([name |-> JStr(<<"s", "A", "I">>), title |-> JStr(StrDev),
            requisitionNumber |-> JStr(<<"R", "1">>)]),
      JObj([name |-> JStr(<<"7">>)]),
      JObj([title |-> JNum]),
      JList(<< >>) }

SummaryPayloads ==
    { JObj([title |-> JStr(StrDevLower),
            professionalSummary |->
                JList(<<JStr(<<"-", " ", "a">>), JNum>>),
            summarySections |->
                JList(<<JObj([content |-> JList(<<JStr(<<"*", "b">>)>>)]),
                        JStr(<<"x">>)>>)]),
      JObj([title |-> JStr(StrQA),
            professionalSummary |-> JList(<<JStr(<<"a">>)>>)]),
      JObj([title |-> JNum]),
      JList(<< >>) }

ExperiencePayloads ==
    { JObj([employmentHistory |->
               JList(<<JObj([roleName |-> JStr(<<"e">>)]), JStr(<<"x">>)>>)]),
      JObj([employmentHistory |-> JStr(<<"x">>)]),
      JObj([employmentHistory |-> JNum]) }

EducationPayloads ==
    { JObj([education |-> JList(<<JObj([degree |-> JStr(<<"B", "S">>)])>>)]),
      JObj([education |-> JNum]) }

SkillsPayloads ==
    { JObj([technicalSkills |-> JObj([db |-> JStr(<<"x">>)]),
            skillCategories |->
                JList(<<JObj([categoryName |-> JStr(<<"c">>)])>>)]),
      JNull }

CertificationsPayloads ==
    { JObj([certifications |->
               JList(<<JObj([issuedBy |-> JStr(<<"i">>)])>>)]),
      JObj([certifications |-> JList(<<JStr(<<"x">>)>>)]) }

Payloads(at) ==
    CASE at = "header" -> HeaderPayloads
      [] at = "summary" -> SummaryPayloads
      [] at = "experience" -> ExperiencePayloads
      [] at = "education" -> EducationPayloads
      [] at = "skills" -> SkillsPayloads
      [] at = "certifications" -> CertificationsPayloads

\* str(e) of the exceptions the external call raises: a message, or none
ErrorTexts == {<< >>, <<"Request timed out.">>, <<"Connection error.">>}

\* str(e) of the JSONDecodeError of json.loads
DecodeErrorTexts ==
    {<<"Expecting value: line 1 column 1 (char 0)">>,
     <<"Unterminated string starting at: line 1 column 2 (char 1)">>}

\* what the external capability can do with one call
FailureResponses ==
    { [kind |-> "raise", msg |-> m] : m \in ErrorTexts }
    \cup { [kind |-> "no_tool_call"] }
    \cup { [kind |-> "bad_json", msg |-> m] : m \in DecodeErrorTexts }

Responses(at) ==
    FailureResponses \cup { [kind |-> "json", value |-> j] : j \in Payloads(at) }

\* the responses of the orchestrator runs: every payload, and one way of
\* failing per agent type
RunFailure(at) ==
    CASE at = "header" -> [kind |-> "raise", msg |-> << >>]
      [] at = "summary" -> [kind |-> "raise", msg |-> <<"Request timed out.">>]
      [] at = "experience" -> [kind |-> "no_tool_call"]
      [] at = "education" -> [kind |-> "bad_json",
                               msg |-> <<"Expecting value: line 1 column 1 (char 0)">>]
      [] at = "skills" -> [kind |-> "raise", msg |-> << >>]
      [] at = "certifications" -> [kind |-> "no_tool_call"]

RunResponses(at) ==
    {RunFailure(at)} \cup { [kind |-> "json", value |-> j] : j \in Payloads(at) }

-----------------------------------------------------------------------------
(* process_resume_with_agents *)

NoProbe == [op |-> "none"]

ErrorEvent(e) ==
    [type |-> "error", message |-> <<"Resume processing failed: ">> \o e]
FinalData(combined) == [type |-> "final_data", data |-> combined]

IsException(r) == "raised" \in DOMAIN r

\* successful_results as it would be if one failed agent voided the run's
\* results
successful_results_AllOrNone(rs) ==
    IF \E i \in 1..Len(rs) : IsException(rs[i]) \/ ~rs[i].success
    THEN << >>
    ELSE rs

\* the loop over the gathered results: the successful ones, in list order
successful_results(rs) ==
    SelectSeq(rs, LAMBDA r : ~IsException(r) /\ r.success)

\* the results list asyncio.gather returns: one entry per task, in the order
\* of the agents list
gathered == [i \in 1..Len(AgentTypes) |-> results[AgentTypes[i]]]

Init ==
    /\ pc = "start"
    /\ raw_text \in RawTexts
    /\ meta_order \in MetaOrders
    /\ sections = << >>
    /\ agent_inputs = [at \in AgentType |-> << >>]
    /\ task = [at \in AgentType |-> "none"]
    /\ calls = [at \in AgentType |-> 0]
    /\ results = [at \in AgentType |-> JNull]
    /\ events = << >>
    /\ probe = NoProbe

\* from the call to the await on gather: chunk, reorder, create the agents,
\* prepare their inputs, create the six tasks.  An exception of the chunker
\* reaches the except clause of the function.
StartRun ==
    /\ pc = "start"
    /\ \E chunked \in chunk_outcomes(raw_text) :
         IF chunked.raised
         THEN /\ events' = Append(events, ErrorEvent(chunked.msg))
              /\ pc' = "yielded"
              /\ UNCHANGED <<sections, agent_inputs, task>>
         ELSE LET kept == IF DictHas(chunked.data, "error") THEN << >>
                          ELSE chunked.data
                  secs == IF kept # << >>
                          THEN reorder_sections_to_standard(kept, meta_order)
                          ELSE kept
              IN  /\ sections' = secs
                  /\ agent_inputs' =
                         prepare_agent_inputs(secs, raw_text.v).inputs
                  /\ task' = [at \in AgentType |-> "pending"]
                  /\ pc' = "gather"
                  /\ UNCHANGED events
    /\ UNCHANGED <<raw_text, meta_order, calls, results, probe>>

\* a task runs ResumeAgent.process up to the await of the external call
AgentCall(at) ==
    /\ pc = "gather"
    /\ task[at] = "pending"
    /\ calls[at] < MaxCalls
    /\ calls' = [calls EXCEPT ![at] = @ + 1]
    /\ task' = [task EXCEPT ![at] = "awaiting"]
    /\ UNCHANGED <<pc, raw_text, meta_order, sections, agent_inputs, results,
                   events, probe>>

\* AgentReturn as it would be if a failed call were retried
AgentReturn_Retry(at) ==
    /\ pc = "gather"
    /\ task[at] = "awaiting"
    /\ \E response \in RunResponses(at) :
           IF process(at, response).success
           THEN /\ results' = [results EXCEPT ![at] = process(at, response)]
                /\ task' = [task EXCEPT ![at] = "done"]
           ELSE /\ results' = results
                /\ task' = [task EXCEPT ![at] = "pending"]
    /\ UNCHANGED <<pc, raw_text, meta_order, sections, agent_inputs, calls,
                   events, probe>>

\* AgentReturn as it would be if a failing task cancelled its siblings
AgentReturn_CancelsSiblings(at) ==
    /\ pc = "gather"
    /\ task[at] = "awaiting"
    /\ \E response \in RunResponses(at) :
           /\ results' = [results EXCEPT ![at] = process(at, response)]
           /\ task' = [other \in AgentType |->
                          IF other = at THEN "done"
                          ELSE IF task[other] # "done"
                                  /\ ~process(at, response).success
                               THEN "cancelled"
                          ELSE task[other]]
    /\ UNCHANGED <<pc, raw_text, meta_order, sections, agent_inputs, calls,
                   events, probe>>

\* the external call returns or raises and process runs to its return
AgentReturn(at) ==
    /\ pc = "gather"
    /\ task[at] = "awaiting"
    /\ \E response \in RunResponses(at) :
           results' = [results EXCEPT ![at] = process(at, response)]
    /\ task' = [task EXCEPT ![at] = "done"]
    /\ UNCHANGED <<pc, raw_text, meta_order, sections, agent_inputs, calls,
                   events, probe>>

\* Collect as it would be if the orchestrator went on at the first task that
\* finished instead of waiting for all six
Collect_FirstCompleted ==
    /\ pc = "gather"
    /\ \E at \in AgentType : task[at] = "done"
    /\ LET finished == SelectSeq(AgentTypes, LAMBDA at : task[at] = "done")
           returned == [i \in 1..Len(finished) |-> results[finished[i]]]
           combined == combine_agent_results(successful_results(returned))
       IN  events' = Append(events,
                        IF combined.raised THEN ErrorEvent(combined.msg)
                        ELSE FinalData(combined.data))
    /\ pc' = "yielded"
    /\ UNCHANGED <<raw_text, meta_order, sections, agent_inputs, task, calls,
                   results, probe>>

\* Collect as it would be if a failed agent's exception left gather
Collect_FailureRaises ==
    /\ pc = "gather"
    /\ \A at \in AgentType : task[at] = "done"
    /\ LET combined == combine_agent_results(successful_results(gathered))
           failed == SelectSeq(gathered,
                               LAMBDA r : IsException(r) \/ ~r.success)
       IN  events' = Append(events,
                        IF failed # << >>
                        THEN ErrorEvent(failed[1].error_message.v)
                        ELSE IF combined.raised THEN ErrorEvent(combined.msg)
                        ELSE FinalData(combined.data))
    /\ pc' = "yielded"
    /\ UNCHANGED <<raw_text, meta_order, sections, agent_inputs, task, calls,
                   results, probe>>

\* Collect as it would be without the except clause around the merge
Collect_MergeErrorLost ==
    /\ pc = "gather"
    /\ \A at \in AgentType : task[at] = "done"
    /\ LET combined == combine_agent_results(successful_results(gathered))
       IN  events' = IF combined.raised THEN events
                     ELSE Append(events, FinalData(combined.data))
    /\ pc' = "yielded"
    /\ UNCHANGED <<raw_text, meta_order, sections, agent_inputs, task, calls,
                   results, probe>>

\* gather returns when every task is done; the results are split, merged and
\* the terminal event is yielded.  An exception of the merge reaches the
\* except clause.
Collect ==
    /\ pc = "gather"
    /\ \A at \in AgentType : task[at] = "done"
    /\ LET combined == combine_agent_results(successful_results(gathered))
       IN  events' = Append(events,
                        IF combined.raised THEN ErrorEvent(combined.msg)
                        ELSE FinalData(combined.data))
    /\ pc' = "yielded"
    /\ UNCHANGED <<raw_text, meta_order, sections, agent_inputs, task, calls,
                   results, probe>>

\* the consumer asks for the next event: the generator returns
Finish ==
    /\ pc = "yielded"
    /\ pc' = "done"
    /\ UNCHANGED <<raw_text, meta_order, sections, agent_inputs, task, calls,
                   results, events, probe>>

Next ==
    \/ StartRun
    \/ \E at \in AgentType : AgentCall(at)
    \/ \E at \in AgentType : AgentReturn(at)
    \/ Collect
    \/ Finish

Spec == Init /\ [][Next]_vars

-----------------------------------------------------------------------------
(* Properties of a run *)

Terminated == pc \in {"yielded", "done"}
AllDone == \A at \in AgentType : task[at] = "done"
Succeeded(at) == task[at] = "done" /\ results[at].success
Failed(at) == task[at] = "done" /\ ~results[at].success
FailedAgents == { at \in AgentType : Failed(at) }

IsFinalData(e) ==
    /\ e.type = "final_data"
    /\ DOMAIN e = {"type", "data"}
    /\ DOMAIN e.data = DOMAIN EmptyRecord
IsError(e) ==
    /\ e.type = "error"
    /\ DOMAIN e = {"type", "message"}
    /\ e.message # << >>

\* C1: a run that has ended has yielded exactly one event, a final_data
\* event carrying the merged record or an error event carrying a message;
\* a run that has not ended has yielded nothing.
C1_OneTerminalEvent ==
    /\ Len(events) <= 1
    /\ Terminated <=> Len(events) = 1
    /\ \A i \in 1..Len(events) : IsFinalData(events[i]) \/ IsError(events[i])

\* a run that ended in final_data although an agent failed, and a run that
\* ended in error because the merge raised
C1_Witness ==
    /\ pc = "done"
    /\ AllDone
    /\ FailedAgents # {}
    /\ IsFinalData(events[1])

\* a value on which (v or '').strip() raises
StripRaises(j) == Truthy(j) /\ ~IsStr(j)

\* the data of a succeeded agent on which _combine_agent_results raises
MergeRaisesOn(at) ==
    /\ Succeeded(at)
    /\ \/ ~IsDict(results[at].data)
       \/ /\ at \in {"header", "summary"}
          /\ StripRaises(Get(results[at].data, "title"))
       \/ /\ at = "header"
          /\ StripRaises(Get(results[at].data, "name"))

\* the text of a title or name field as the merge reads it
FieldText(at, field) ==
    IF Succeeded(at) /\ Truthy(Get(results[at].data, field))
    THEN strip(Get(results[at].data, field).v)
    ELSE << >>

\* the fields of the record that agent at fills hold what it returned
HoldsData(at, rec) ==
    LET d == results[at].data
    IN  CASE at = "header" ->
               /\ rec.requisitionNumber = GetOr(d, "requisitionNumber", EmptyStr)
               /\ IsStr(rec.name)
               /\ rec.name = EmptyStr <=> FieldText(at, "name") = << >>
          [] at = "summary" ->
               /\ rec.professionalSummary =
                      GetOr(d, "professionalSummary", EmptyList)
               /\ rec.summarySections = GetOr(d, "summarySections", EmptyList)
               /\ rec.subsections = rec.summarySections
          [] at = "experience" ->
               rec.employmentHistory = GetOr(d, "employmentHistory", EmptyList)
          [] at = "education" ->
               rec.education = GetOr(d, "education", EmptyList)
          [] at = "skills" ->
               /\ rec.technicalSkills = GetOr(d, "technicalSkills", EmptyDict)
               /\ rec.skillCategories = GetOr(d, "skillCategories", EmptyList)
          [] at = "certifications" ->
               rec.certifications = GetOr(d, "certifications", EmptyList)

\* the fields of the record that agent at fills are at their defaults
HoldsDefault(at, rec) ==
    CASE at = "header" ->
           rec.name = EmptyStr /\ rec.requisitionNumber = EmptyStr
      [] at = "summary" ->
           /\ rec.professionalSummary = EmptyList
           /\ rec.summarySections = EmptyList
           /\ rec.subsections = EmptyList
      [] at = "experience" -> rec.employmentHistory = EmptyList
      [] at = "education" -> rec.education = EmptyList
      [] at = "skills" ->
           rec.technicalSkills = EmptyDict /\ rec.skillCategories = EmptyList
      [] at = "certifications" -> rec.certifications = EmptyList

PartialRecord(rec) ==
    \A at \in AgentType :
        IF Succeeded(at) THEN HoldsData(at, rec) ELSE HoldsDefault(at, rec)

OneAgentFailed == pc = "done" /\ AllDone /\ Cardinality(FailedAgents) = 1

\* C2 as stated: when exactly one agent failed the run ends in final_data,
\* the fields of the five others hold their data and the fields of the
\* failed one are empty.
C2_AsStated ==
    OneAgentFailed =>
        /\ events[1].type = "final_data"
        /\ PartialRecord(events[1].data)

\* C2: when exactly one agent failed, the run ends in final_data with the
\* five others' fields holding their data and the failed agent's fields
\* empty, unless the merge raises on the data of a succeeded header or
\* summary agent (a header payload that is not an object, a title or name
\* that is not a string), in which case the run ends in error.  The title
\* is the reconciled one: the other agent's title when the header or the
\* summary agent is the one that failed.
C2_PartialFailure ==
    OneAgentFailed =>
        IF \E at \in AgentType : MergeRaisesOn(at)
        THEN events[1].type = "error"
        ELSE /\ events[1].type = "final_data"
             /\ PartialRecord(events[1].data)
             /\ Failed("header") =>
                    events[1].data.title = JStr(FieldText("summary", "title"))
             /\ Failed("summary") =>
                    events[1].data.title = JStr(FieldText("header", "title"))

\* the certifications agent failed, the five others succeeded with data
C2_Witness ==
    /\ OneAgentFailed
    /\ Failed("certifications")
    /\ events[1].type = "final_data"
    /\ events[1].data.certifications = EmptyList
    /\ events[1].data.name # EmptyStr
    /\ events[1].data.professionalSummary # EmptyList
    /\ events[1].data.employmentHistory # EmptyList
    /\ events[1].data.education # EmptyList
    /\ events[1].data.skillCategories # EmptyList

\* C5: when the chunker raises, the run goes on with an empty SectionMap,
\* every agent gets the full raw text and the run ends in final_data.
C5_ChunkFailureNotFatal ==
    (Terminated /\ \E c \in chunk_outcomes(raw_text) : c.raised) =>
        /\ sections = << >>
        /\ \A at \in AgentType : agent_inputs[at] = raw_text
        /\ events[1].type = "final_data"

\* C6: when the orchestrator waits, all six tasks exist; no task is ever
\* cancelled, whatever its siblings returned; a run whose chunking succeeded
\* ends only after every task has returned its AgentResult, and the merge
\* receives every successful one.
C6_AllLaunchedNoneCancelled ==
    /\ pc = "gather" =>
          \A at \in AgentType : task[at] \in {"pending", "awaiting", "done"}
    /\ \A at \in AgentType : task[at] # "cancelled"
    /\ (Terminated /\ IsStr(raw_text)) =>
          /\ AllDone
          /\ \A at \in AgentType :
                /\ ~IsException(results[at])
                /\ results[at].agent_type = at
                /\ results[at].success =>
                      InSeq(results[at], successful_results(gathered))

\* one agent has failed while a sibling is still waiting for its call
C6_Witness ==
    /\ pc = "gather"
    /\ Failed("header")
    /\ task["summary"] = "awaiting"
    /\ Succeeded("skills")
    /\ task["certifications"] = "pending"

\* C7: no agent issues more than one external call, a task that has issued
\* its call or returned has issued exactly one, and a finished run has one
\* AgentResult per agent type.
C7_NoRetries ==
    /\ \A at \in AgentType :
          /\ calls[at] <= 1
          /\ task[at] \in {"awaiting", "done"} <=> calls[at] = 1
          /\ task[at] = "done" <=> results[at] # JNull
    /\ \A i, j \in 1..Len(AgentTypes) : AgentTypes[i] = AgentTypes[j] => i = j
    /\ (Terminated /\ IsStr(raw_text)) =>
          \A at \in AgentType :
              Cardinality({ i \in 1..Len(gathered) :
                              gathered[i].agent_type = at }) = 1

\* every agent failed, each after a single call
C7_Witness ==
    /\ pc = "done"
    /\ FailedAgents = AgentType
    /\ \A at \in AgentType : calls[at] = 1

-----------------------------------------------------------------------------
(* ResumeAgent.process on its own: one agent, one call *)

\* the orchestrator is not running
Idle ==
    /\ pc = "idle"
    /\ raw_text = JNull
    /\ meta_order = << >>
    /\ sections = << >>
    /\ agent_inputs = << >>
    /\ task = << >>
    /\ calls = << >>
    /\ results = << >>
    /\ events = << >>

InitProcess ==
    /\ Idle
    /\ \E at \in AgentType :
          probe = [op |-> "process", agent_type |-> at, step |-> "entered",
                   response |-> JNull, result |-> JNull]

\* process awaits chat.completions.create, which returns or raises
ProcessCall ==
    /\ probe.op = "process"
    /\ probe.step = "entered"
    /\ \E r \in Responses(probe.agent_type) :
          probe' = [probe EXCEPT !.step = "called", !.response = r]
    /\ UNCHANGED orch_vars

\* the rest of process: parse, clean, build the AgentResult or the error
\* result
ProcessReturn ==
    /\ probe.op = "process"
    /\ probe.step = "called"
    /\ probe' = [probe EXCEPT
                    !.step = "returned",
                    !.result = process(probe.agent_type, probe.response)]
    /\ UNCHANGED orch_vars

NextProcess == ProcessCall \/ ProcessReturn

SpecProcess == InitProcess /\ [][NextProcess]_vars

ProcessReturned == probe.op = "process" /\ probe.step = "returned"

\* call, parse and cleaning all completed
ProcessCompleted ==
    /\ probe.response.kind = "json"
    /\ ~clean_extracted_data(probe.agent_type, probe.response.value).raised

IsPrefixOf(p, s) == Len(p) <= Len(s) /\ SubSeq(s, 1, Len(p)) = p

\* C3 as stated: process returns an AgentResult, never an exception; a
\* failure of the call, the parse or the cleaning gives success = false, a
\* non-empty error message and data = {}; success = true only when all
\* three completed.
C3_AsStated ==
    ProcessReturned =>
        /\ ~IsException(probe.result)
        /\ probe.result.success <=> ProcessCompleted
        /\ ~probe.result.success =>
              /\ probe.result.data = EmptyDict
              /\ IsStr(probe.result.error_message)
              /\ probe.result.error_message.v # << >>

\* C3: process returns an AgentResult for its own agent type, never an
\* exception; a failure of the call, the parse or the cleaning gives
\* success = false, data = {} and as error message the text of the
\* exception, which is empty exactly when the exception carries no text (a
\* parse failure is prefixed "JSON parsing failed: " and so is never
\* empty); success = true only when all three completed.
C3_ProcessNeverRaises ==
    ProcessReturned =>
        /\ ~IsException(probe.result)
        /\ probe.result.agent_type = probe.agent_type
        /\ probe.result.success <=> ProcessCompleted
        /\ ~probe.result.success =>
              /\ probe.result.data = EmptyDict
              /\ IsStr(probe.result.error_message)
              /\ probe.result.error_message.v = << >> =>
                    /\ probe.response.kind = "raise"
                    /\ probe.response.msg = << >>
              /\ probe.response.kind = "raise" =>
                    probe.result.error_message.v = probe.response.msg
              /\ probe.response.kind = "bad_json" =>
                    IsPrefixOf(<<"JSON parsing failed: ">>,
                               probe.result.error_message.v)

\* the external call raised an exception without text and process returned
\* a failure result with an empty message
C3_Witness ==
    /\ ProcessReturned
    /\ probe.response.kind = "raise"
    /\ probe.response.msg = << >>
    /\ ~IsException(probe.result)
    /\ ~probe.result.success
    /\ probe.result.data = EmptyDict
    /\ probe.result.error_message = EmptyStr

-----------------------------------------------------------------------------
(* _combine_agent_results on its own: a list of succeeded results *)

\* the AgentResult of a succeeded agent
Succeed(at, data) ==
    [agent_type |-> at, data |-> data, success |-> TRUE,
     error_message |-> JNull]

\* the data a succeeded agent can carry: what process returns for a payload
SucceededData(at) ==
    { r.data :
        r \in { q \in { process(at, [kind |-> "json", value |-> j]) :
                          j \in Payloads(at) } : q.success } }

\* the lists with at most one succeeded result per agent type, in the order
\* of the agents list, from position n on
RECURSIVE ResultLists(_)
ResultLists(n) ==
    IF n > Len(AgentTypes) THEN { << >> }
    ELSE ResultLists(n + 1)
         \cup { <<Succeed(AgentTypes[n], d)>> \o rest :
                  d \in SucceededData(AgentTypes[n]),
                  rest \in ResultLists(n + 1) }

\* the strings of at most n characters of chars
RECURSIVE StringsUpTo(_, _)
StringsUpTo(chars, n) ==
    IF n = 0 THEN { << >> }
    ELSE LET shorter == StringsUpTo(chars, n - 1)
         IN  shorter \cup { <<c>> \o x : c \in chars,
                              x \in { y \in shorter : Len(y) = n - 1 } }

TitleChars == {"D", "d", "q", " ", "\t"}

Absent == [t |-> "absent"]

\* the titles the header agent reports
HeaderTitles ==
    { JStr(x) : x \in StringsUpTo(TitleChars, MaxTitleLen) } \cup {JNull}

\* the titles the summary agent reports
SummaryTitles ==
    { JNull, JStr(<<" ">>), JStr(<<"D", " ", "q">>),
      JStr(<<" ", "d", " ", " ", "q">>), JStr(<<"q">>) }

TitledResult(at, title) ==
    IF title = Absent THEN << >>
    ELSE << Succeed(at, JObj([title |-> title])) >>

\* a header result and a summary result, either of which may be missing
TitleLists ==
    { TitledResult("header", h) \o TitledResult("summary", x) :
        h \in HeaderTitles \cup {Absent}, x \in SummaryTitles \cup {Absent} }

NameParts ==
    { <<"s", "A", "I">>, <<" ">>, <<"(", "a", "k", "a", ")">>, <<"7">>,
      <<"a", "k", "a">>, <<"b">>, <<"N", "a", "m", "e", ":">>,
      <<"o", "'", "n">>, <<"-">> }

\* the concatenations of at most n parts
RECURSIVE Names(_)
Names(n) ==
    IF n = 0 THEN { << >> }
    ELSE Names(n - 1) \cup { x \o y : x \in NameParts, y \in Names(n - 1) }

\* a header result alone, with the name the agent extracted
NameLists ==
    { << Succeed("header", JObj([name |-> JStr(x)])) >> :
        x \in Names(MaxNameParts) }
    \cup { << Succeed("header", JObj([name |-> JNull])) >> }

InitMerge ==
    /\ Idle
    /\ \E rs \in ResultLists(1) \cup TitleLists \cup NameLists :
          probe = [op |-> "combine", step |-> "listed", rs |-> rs,
                   out |-> JNull]

\* two tasks complete in the other order: their results trade places
SwapAdjacent ==
    /\ probe.op = "combine"
    /\ probe.step = "listed"
    /\ \E i \in 1..(Len(probe.rs) - 1) :
          probe' = [probe EXCEPT
                      !.rs = [probe.rs EXCEPT ![i] = probe.rs[i + 1],
                                              ![i + 1] = probe.rs[i]]]
    /\ UNCHANGED orch_vars

Merge ==
    /\ probe.op = "combine"
    /\ probe.step = "listed"
    /\ probe' = [probe EXCEPT !.step = "merged",
                              !.out = combine_agent_results(probe.rs)]
    /\ UNCHANGED orch_vars

NextMerge == SwapAdjacent \/ Merge

SpecMerge == InitMerge /\ [][NextMerge]_vars

Merged == probe.op = "combine" /\ probe.step = "merged"

\* whether the list holds a result of agent type at, and that result
HasResult(rs, at) == \E i \in 1..Len(rs) : rs[i].agent_type = at
ResultOf(rs, at) == rs[CHOOSE i \in 1..Len(rs) : rs[i].agent_type = at]

\* the list in the order of the agents list
InAgentOrder(rs) ==
    LET present == SelectSeq(AgentTypes, LAMBDA at : HasResult(rs, at))
    IN  [i \in 1..Len(present) |-> ResultOf(rs, present[i])]

\* C4: whatever the order of the succeeded results in the list (at most one
\* per agent type), the merge returns the record it returns for the list in
\* the order of the agents, title and name included, and raises exactly
\* when it raises for that list.
C4_MergeOrderIndependent ==
    Merged =>
        LET inorder == combine_agent_results(InAgentOrder(probe.rs))
        IN  /\ probe.out.raised = inorder.raised
            /\ ~inorder.raised => probe.out.data = inorder.data

\* six results arrived in an order other than that of the agents list and
\* were merged into a record with a title and a name
C4_Witness ==
    /\ Merged
    /\ Len(probe.rs) = Len(AgentTypes)
    /\ probe.rs[1].agent_type = "certifications"
    /\ probe.rs[Len(probe.rs)].agent_type = "header"
    /\ ~probe.out.raised
    /\ probe.out.data.title # EmptyStr
    /\ probe.out.data.name # EmptyStr

\* the title a result reports, trimmed; empty when the agent has no result
\* in the list or reports no title
ReportedTitle(rs, at) ==
    IF ~HasResult(rs, at) THEN << >>
    ELSE LET t == Get(ResultOf(rs, at).data, "title")
         IN  IF IsStr(t) THEN strip(t.v) ELSE << >>

\* whitespace collapsed and case folded
Folded(x) == lower(collapse_ws(x))

\* C9: with the header's and the summary's titles compared after whitespace
\* collapsing and case folding, the merged title is empty when both are
\* non-empty and differ, is the (trimmed) non-empty one when only one is
\* non-empty, is empty when neither is, and is non-empty (the header's)
\* when both are non-empty and agree.
C9_TitleReconciliation ==
    (Merged /\ ~probe.out.raised) =>
        LET h == ReportedTitle(probe.rs, "header")
            x == ReportedTitle(probe.rs, "summary")
            title == probe.out.data.title
        IN  /\ IsStr(title)
            /\ (h # << >> /\ x # << >> /\ Folded(h) # Folded(x))
                  => title.v = << >>
            /\ (h # << >> /\ x = << >>) => title.v = h
            /\ (h = << >> /\ x # << >>) => title.v = x
            /\ (h = << >> /\ x = << >>) => title.v = << >>
            /\ (h # << >> /\ x # << >> /\ Folded(h) = Folded(x))
                  => title.v # << >> /\ title.v = h

\* the two titles are written differently, agree once folded, and the
\* header's is the merged title
C9_Witness ==
    /\ Merged
    /\ ~probe.out.raised
    /\ ReportedTitle(probe.rs, "header") # << >>
    /\ ReportedTitle(probe.rs, "header") # ReportedTitle(probe.rs, "summary")
    /\ Folded(ReportedTitle(probe.rs, "header"))
          = Folded(ReportedTitle(probe.rs, "summary"))
    /\ probe.out.data.title = JStr(ReportedTitle(probe.rs, "header"))

\* the name the header result reports, trimmed
ReportedName(rs) ==
    LET n == Get(ResultOf(rs, "header").data, "name")
    IN  IF IsStr(n) THEN strip(n.v) ELSE << >>

\* C10: with a header result in the list, the merged name is
\* normalize_person_name of the trimmed extracted name when that is
\* non-empty and the trimmed extracted name otherwise, so it is empty only
\* when the trimmed extracted name is empty; without a header result the
\* merged name is empty.
C10_NameReconciliation ==
    (Merged /\ ~probe.out.raised) =>
        LET name == probe.out.data.name
        IN  IF HasResult(probe.rs, "header")
            THEN LET raw == ReportedName(probe.rs)
                 IN  /\ IsStr(name)
                     /\ normalize_person_name(raw) # << >>
                           => name.v = normalize_person_name(raw)
                     /\ normalize_person_name(raw) = << >> => name.v = raw
                     /\ name.v = << >> => raw = << >>
            ELSE name = EmptyStr

\* normalization collapsed a non-empty extracted name to nothing and the
\* merged name is the extracted name
C10_Witness ==
    /\ Merged
    /\ ~probe.out.raised
    /\ HasResult(probe.rs, "header")
    /\ ReportedName(probe.rs) # << >>
    /\ normalize_person_name(ReportedName(probe.rs)) = << >>
    /\ probe.out.data.name = JStr(ReportedName(probe.rs))

-----------------------------------------------------------------------------
(* _prepare_agent_inputs on its own: a SectionMap and a raw text *)

\* what the SectionMap can hold for a key: nothing, None, or a string that
\* is empty, blank, or has content with blanks around it
SectionValues ==
    { Absent, JNull, EmptyStr, JStr(<<" ", "\n">>),
      JStr(<<" ", "s", "\n">>) }

\* the SectionMaps over the standard keys from position n on
RECURSIVE SectionMaps(_)
SectionMaps(n) ==
    IF n > Len(STANDARD_ORDER) THEN { << >> }
    ELSE { (IF v = Absent THEN << >>
            ELSE << [k |-> STANDARD_ORDER[n], v |-> v] >>) \o rest :
              v \in SectionValues, rest \in SectionMaps(n + 1) }

\* a raw text longer than the context given to the header agent
LongText ==
    [i \in 1..(ContextChars + 2) |-> IF i % 7 = 0 THEN "\n" ELSE "x"]

InitInputs ==
    /\ Idle
    /\ \E secs \in SectionMaps(1), text \in {SampleText, LongText} :
          probe = [op |-> "inputs", step |-> "chunked", secs |-> secs,
                   text |-> text, out |-> JNull]

PrepareInputs ==
    /\ probe.op = "inputs"
    /\ probe.step = "chunked"
    /\ probe' = [probe EXCEPT
                    !.step = "prepared",
                    !.out = prepare_agent_inputs(probe.secs, probe.text)]
    /\ UNCHANGED orch_vars

NextInputs == PrepareInputs

SpecInputs == InitInputs /\ [][NextInputs]_vars

Prepared == probe.op = "inputs" /\ probe.step = "prepared"

\* the SectionMap entry of a key, Absent when the map has no such key
Entry(secs, key) ==
    IF \E i \in 1..Len(secs) : secs[i].k = key
    THEN secs[CHOOSE i \in 1..Len(secs) : secs[i].k = key].v
    ELSE Absent

\* absent, None, empty or whitespace only
Blank(v) ==
    \/ v = Absent
    \/ v = JNull
    \/ IsStr(v) /\ \A i \in 1..Len(v.v) : IsSpace(v.v[i])

\* C8: every agent type gets an input.  The certifications agent gets the
\* full raw text whatever the SectionMap holds.  The header agent whose
\* section is not blank gets the first ContextChars characters of the raw
\* text, the header marker and its trimmed section.  Each of summary,
\* experience, education and skills whose section is not blank gets exactly
\* its trimmed section.  A non-certifications agent whose section is
\* absent, None or blank gets the full raw text.
C8_AgentInputSelection ==
    Prepared =>
        /\ DOMAIN probe.out.inputs = AgentType
        /\ probe.out.inputs["certifications"] = probe.text
        /\ \A at \in AgentType \ {"certifications"} :
              LET v == Entry(probe.secs, at)
                  input == probe.out.inputs[at]
              IN  IF Blank(v) THEN input = probe.text
                  ELSE IF at = "header"
                       THEN \E n \in 0..ContextChars :
                              /\ n = Len(probe.text) \/ n = ContextChars
                              /\ n <= Len(probe.text)
                              /\ input = SubSeq(probe.text, 1, n)
                                         \o <<HeaderMarker>> \o strip(v.v)
                  ELSE input = strip(v.v)

\* a raw text longer than the context, a header and a summary section with
\* content, no experience section, a blank skills section, and a
\* certifications section with content that is not what its agent gets
C8_Witness ==
    /\ Prepared
    /\ Len(probe.text) > ContextChars
    /\ ~Blank(Entry(probe.secs, "header"))
    /\ Len(probe.out.inputs["header"]) = ContextChars + 2
    /\ probe.out.inputs["summary"] = <<"s">>
    /\ Entry(probe.secs, "experience") = Absent
    /\ probe.out.inputs["experience"] = probe.text
    /\ Entry(probe.secs, "skills") = JStr(<<" ", "\n">>)
    /\ probe.out.inputs["skills"] = probe.text
    /\ ~Blank(Entry(probe.secs, "certifications"))
    /\ probe.out.inputs["certifications"] = probe.text

-----------------------------------------------------------------------------
(* The experience agent's cleaning and the merge of its result *)

PutUnlessAbsent(d, k, v) == IF v = Absent THEN d ELSE Put(d, k, v)

\* period strings a model returns
PeriodSamples ==
    { <<"J", "a", "n", "u", "a", "r", "y", " ", "2", "0", "2", "4", " ", "-", " ", "P", "r", "e", "s", "e", "n", "t">>, <<"j", "a", "n", " ", "2", "0", "2", "0", " ", "-", " ", "d", "e", "c", " ", "2", "0", "2", "1">>,
      <<"S", "e", "p", "t", " ", "2", "0", "2", "0", " ", "-", " ", "O", "c", "t", " ", "2", "0", "2", "1">>, <<"J", "a", "n", " ", "2", "0", "2", "0", " ", "t", "o", " ", "D", "e", "c", " ", "2", "0", "2", "1">>,
      <<"J", "a", "n", " ", "2", "0", "2", "0">>, <<"J", "A", "N", " ", "2", "0", "2", "0", "-", "P", "r", "e", "s", "e", "n", "t">>, <<"J", "a", "n", " ", "2", "0", "2", "0", " ", "-", " ", "D", "e", "c", " ", "2", "0", "2", "1">>,
      <<"2", "0", "2", "0", " ", "-", " ", "2", "0", "2", "1">>, <<" ", "M", "a", "r", " ", "2", "0", "1", "9", " ", "-", " ", "t", "i", "l", "l", " ", "n", "o", "w", " ">>,
      <<"J", "a", "n", " ", "2", "0", "2", "0", EnDash,
        "D", "e", "c", " ", "2", "0", "2", "1">> }

WorkPeriodValues == { JStr(x) : x \in PeriodSamples } \cup {Absent, JNum}

ProjectPeriodValues ==
    { JNull, JStr(<<"j", "a", "n", " ", "2", "0", "2", "0", " ", "-", " ", "d", "e", "c", " ", "2", "0", "2", "1">>), JStr(<<"J", "a", "n", " ", "2", "0", "2", "0", "-", "D", "e", "c", " ", "2", "0", "2", "1">>),
      JStr(<<"M", "a", "r", " ", "2", "0", "2", "1">>) }

\* what the model returns as projects of a job
ProjectsValues ==
    { Absent, JNull, EmptyList, JList(<<JStr(<<"p">>)>>), JStr(<<"p">>),
      JObj([projectName |-> JStr(<<"P">>)]) }
    \cup { JList(<<JObj([projectName |-> JStr(<<"P">>), period |-> x])>>) :
             x \in ProjectPeriodValues }

KeyTechnologiesValues == { Absent, JNull, EmptyStr, JStr(<<"Java">>) }

ResponsibilitiesValues ==
    { Absent, JNull, EmptyList, EmptyStr, JStr(<<"text">>),
      JList(<<JStr(<<"-", " ", "d", "i", "d", " ", "x">>)>>) }

\* the jobs a model returns
JobSamples ==
    { PutUnlessAbsent(PutUnlessAbsent(PutUnlessAbsent(PutUnlessAbsent(
          JObj([companyName |-> JStr(<<"Acme">>)]),
          "workPeriod", w), "projects", p), "keyTechnologies", k),
          "responsibilities", r) :
        w \in WorkPeriodValues, p \in ProjectsValues,
        k \in KeyTechnologiesValues, r \in ResponsibilitiesValues }

InitExperience ==
    /\ Idle
    /\ \E job \in JobSamples :
          probe = [op |-> "experience", step |-> "extracted",
                   data |-> JObj([employmentHistory |-> JList(<<job>>)]),
                   cleaned |-> JNull, merged |-> JNull]

\* _clean_extracted_data of the experience agent on the parsed arguments
CleanExperience ==
    /\ probe.op = "experience"
    /\ probe.step = "extracted"
    /\ probe' = [probe EXCEPT
                    !.step = "cleaned",
                    !.cleaned = clean_extracted_data("experience", probe.data)]
    /\ UNCHANGED orch_vars

\* the merge of the experience agent's result, when cleaning did not raise
MergeExperience ==
    /\ probe.op = "experience"
    /\ probe.step = "cleaned"
    /\ ~probe.cleaned.raised
    /\ probe' = [probe EXCEPT
                    !.step = "merged",
                    !.merged = combine_agent_results(
                                  <<Succeed("experience", probe.cleaned.data)>>)]
    /\ UNCHANGED orch_vars

NextExperience == CleanExperience \/ MergeExperience

SpecExperience == InitExperience /\ [][NextExperience]_vars

\* the jobs of the employmentHistory the cleaning produced
CleanedJobs ==
    IF probe.op = "experience" /\ probe.step = "cleaned"
       /\ ~probe.cleaned.raised
    THEN Get(probe.cleaned.data, "employmentHistory").v
    ELSE << >>

HasProjects(job) ==
    IsList(Get(job, "projects")) /\ Get(job, "projects").v # << >>

\* C11: every job the experience agent's cleaning produces with a
\* non-empty projects list has responsibilities = [] and
\* keyTechnologies = "".
C11_TechResponsibilityExclusion ==
    \A i \in 1..Len(CleanedJobs) :
        HasProjects(CleanedJobs[i]) =>
            /\ Get(CleanedJobs[i], "responsibilities") = EmptyList
            /\ Get(CleanedJobs[i], "keyTechnologies") = EmptyStr

\* the projects of a job that are dicts, by position
ProjectIndexes(job) ==
    IF IsList(Get(job, "projects"))
    THEN { i \in 1..Len(Get(job, "projects").v) :
             IsDict(Get(job, "projects").v[i]) }
    ELSE {}

ProjectAt(job, i) == Get(job, "projects").v[i]

MonthAbbrevs ==
    { <<"j", "a", "n">>, <<"f", "e", "b">>, <<"m", "a", "r">>, <<"a", "p", "r">>, <<"m", "a", "y">>, <<"j", "u", "n">>, <<"j", "u", "l">>,
      <<"a", "u", "g">>, <<"s", "e", "p">>, <<"o", "c", "t">>, <<"n", "o", "v">>, <<"d", "e", "c">> }

\* a word of s begins with the name of a month, in any case
MonthKnown(s) ==
    \E p \in 1..Len(s), m \in MonthAbbrevs :
        MatchAt(s, p, m) /\ (p = 1 \/ ~IsWord(s[p - 1]))

\* [A-Z][a-z]{2} \d{4} at position p
MonthYearAt(s, p) ==
    /\ p + 7 <= Len(s)
    /\ IsUpperCh(s[p]) /\ IsLowerCh(s[p + 1]) /\ IsLowerCh(s[p + 2])
    /\ s[p + 3] = " "
    /\ YearAt(s, p + 4)

\* ^[A-Z][a-z]{2} \d{4} - ([A-Z][a-z]{2} \d{4}|Till Date)$
MatchesPeriodFormat(s) ==
    /\ MonthYearAt(s, 1)
    /\ Len(s) >= 11 /\ SubSeq(s, 9, 11) = <<" ", "-", " ">>
    /\ \/ MonthYearAt(s, 12) /\ Len(s) = 19
       \/ SubSeq(s, 12, Len(s)) = <<"T", "i", "l", "l", " ", "D", "a", "t", "e">>

PeriodOk(v) == (IsStr(v) /\ MonthKnown(v.v)) => MatchesPeriodFormat(v.v)

\* the jobs of the merged record
MergedJobs ==
    IF probe.op = "experience" /\ probe.step = "merged"
       /\ ~probe.merged.raised
    THEN probe.merged.data.employmentHistory.v
    ELSE << >>

\* C13: in a merged record every job workPeriod and every project period
\* that names a month has the form "Mon YYYY - Mon YYYY" or
\* "Mon YYYY - Till Date".
C13_PeriodFormat ==
    \A i \in 1..Len(MergedJobs) :
        /\ PeriodOk(Get(MergedJobs[i], "workPeriod"))
        /\ \A n \in ProjectIndexes(MergedJobs[i]) :
              PeriodOk(Get(ProjectAt(MergedJobs[i], n), "period"))

-----------------------------------------------------------------------------
(* enforce_project_period_dedup on its own *)

PeriodA == <<"J", "a", "n", " ", "2", "0", "2", "0", " ", "-", " ", "D", "e", "c", " ", "2", "0", "2", "1">>
PeriodB == <<"M", "a", "r", " ", "2", "0", "2", "1", " ", "-", " ", "T", "i", "l", "l", " ", "D", "a", "t", "e">>

\* a period field: missing, None, empty, blank, a period with or without
\* blanks around it, another period, a number
DedupPeriodValues ==
    { Absent, JNull, EmptyStr, JStr(<<" ">>), JStr(PeriodA),
      JStr(<<" ">> \o PeriodA), JStr(PeriodB), JNum }

\* the entries of a projects list: a project with a period field, or a
\* string
DedupProjects ==
    { PutUnlessAbsent(JObj([projectName |-> JStr(<<"P">>)]), "period", x) :
        x \in DedupPeriodValues } \cup { JStr(<<"p">>) }

\* the lists of at most n entries
RECURSIVE ProjectLists(_)
ProjectLists(n) ==
    IF n = 0 THEN { << >> }
    ELSE ProjectLists(n - 1)
         \cup { <<x>> \o rest : x \in DedupProjects,
                  rest \in { y \in ProjectLists(n - 1) : Len(y) = n - 1 } }

DedupJobs ==
    { PutUnlessAbsent(PutUnlessAbsent(JObj([companyName |-> JStr(<<"Acme">>)]),
                                      "workPeriod", w), "projects", p) :
        w \in DedupPeriodValues,
        p \in { JList(l) : l \in ProjectLists(MaxProjects) }
              \cup { Absent, JStr(<<"p">>) } }

InitDedup ==
    /\ Idle
    /\ \E job \in DedupJobs :
          probe = [op |-> "dedup", step |-> "cleaned", job |-> job,
                   out |-> JNull]

Dedup ==
    /\ probe.op = "dedup"
    /\ probe.step = "cleaned"
    /\ probe' = [probe EXCEPT
                    !.step = "deduped",
                    !.out = enforce_project_period_dedup(probe.job)]
    /\ UNCHANGED orch_vars

NextDedup == Dedup

SpecDedup == InitDedup /\ [][NextDedup]_vars

Deduped == probe.op = "dedup" /\ probe.step = "deduped" /\ ~probe.out.raised

Trimmed(v) == IF IsStr(v) THEN strip(v.v) ELSE << >>

-----------------------------------------------------------------------------
(* normalize_work_period on its own *)

PeriodParts ==
    { <<"J", "a", "n">>, <<"2", "0", "2", "0">>, <<" ">>, <<"-">>, <<"/">>, <<"1">>, <<"t", "o">>,
      <<"P", "r", "e", "s", "e", "n", "t">>, <<"j", "u", "n", "e">> }

\* the concatenations of at most n parts
RECURSIVE PeriodsOf(_)
PeriodsOf(n) ==
    IF n = 0 THEN { << >> }
    ELSE PeriodsOf(n - 1)
         \cup { x \o y : x \in PeriodParts, y \in PeriodsOf(n - 1) }

\* dates with day, month and year, and ranges written with "to"
DateSamples ==
    { <<"1", "/", "2", "/", "2", "0", "2", "0">>, <<"1", "/", "2", "/", "2", "0", "2", "0", " ", "-", " ", "3", "/", "4", "/", "2", "0", "2", "1">>, <<"J", "a", "n", " ", "2", "0", "2", "0", " ", "-", "t", "o", " ", "D", "e", "c", " ", "2", "0", "2", "1">>,
      <<"J", "a", "n", " ", "2", "0", "2", "0", " ", "t", "o", "-", "D", "e", "c", " ", "2", "0", "2", "1">> }

InitPeriod ==
    /\ Idle
    /\ \E s \in PeriodsOf(MaxPeriodParts) \cup PeriodSamples \cup DateSamples :
          probe = [op |-> "period", step |-> "given", s |-> s,
                   once |-> << >>, twice |-> << >>]

NormalizeOnce ==
    /\ probe.op = "period"
    /\ probe.step = "given"
    /\ probe' = [probe EXCEPT !.step = "once",
                              !.once = normalize_work_period(probe.s)]
    /\ UNCHANGED orch_vars

NormalizeAgain ==
    /\ probe.op = "period"
    /\ probe.step = "once"
    /\ probe' = [probe EXCEPT !.step = "twice",
                              !.twice = normalize_work_period(probe.once)]
    /\ UNCHANGED orch_vars

NextPeriod == NormalizeOnce \/ NormalizeAgain

SpecPeriod == InitPeriod /\ [][NextPeriod]_vars

\* C14: normalizing a normalized period changes nothing.
C14_Idempotent ==
    (probe.op = "period" /\ probe.step = "twice") => probe.twice = probe.once

-----------------------------------------------------------------------------
(* normalize_location on its own *)

LocationParts ==
    { <<"H", "y", "d", "e", "r", "a", "b", "a", "d">>, <<",", " ">>, <<",">>, <<" ">>, <<"I", "n", "d", "i", "a">>, <<"I", "N", "D", "I", "A">>,
      <<"K", "A">>, <<"T", "e", "l", "a", "n", "g", "a", "n", "a">>, <<"I", "n", "d", "i", "a", "n", "a">> }

\* the concatenations of at most n parts
RECURSIVE LocationsOf(_)
LocationsOf(n) ==
    IF n = 0 THEN { << >> }
    ELSE LocationsOf(n - 1)
         \cup { x \o y : x \in LocationParts, y \in LocationsOf(n - 1) }

HyderabadTelanganaIndia == <<"H", "y", "d", "e", "r", "a", "b", "a", "d", ",", " ", "T", "e", "l", "a", "n", "g", "a", "n", "a", ",", " ", "I", "n", "d", "i", "a">>

LocationSamples ==
    { HyderabadTelanganaIndia, <<"B", "e", "n", "g", "a", "l", "u", "r", "u", " ", "K", "A", ",", " ", "I", "n", "d", "i", "a">>,
      <<"A", "u", "s", "t", "i", "n", ",", " ", "T", "e", "x", "a", "s">>, <<"D", "a", "l", "l", "a", "s", " ", "T", "X">>, <<"P", "a", "r", "i", "s", " ", "-", " ", "F", "r", "a", "n", "c", "e">> }

InitLocation ==
    /\ Idle
    /\ \E s \in LocationsOf(MaxLocationParts) \cup LocationSamples :
          probe = [op |-> "location", step |-> "given", s |-> s,
                   out |-> << >>]

NormalizeLocation ==
    /\ probe.op = "location"
    /\ probe.step = "given"
    /\ probe' = [probe EXCEPT !.step = "normalized",
                              !.out = normalize_location(probe.s)]
    /\ UNCHANGED orch_vars

NextLocation == NormalizeLocation

SpecLocation == InitLocation /\ [][NextLocation]_vars

\* the word India occurs in s, in any case
NamesIndia(s) ==
    \E p \in 1..Len(s) :
        /\ p + 4 <= Len(s)
        /\ lower(SubSeq(s, p, p + 4)) = <<"i", "n", "d", "i", "a">>
        /\ (p = 1 \/ ~IsWord(s[p - 1]))
        /\ (p + 5 > Len(s) \/ ~IsWord(s[p + 5]))

\* "<City>, India": one comma, a city that is not empty and not India
IsCityIndia(out) ==
    LET n == Len(out)
        city == SubSeq(out, 1, n - 7)
    IN  /\ n > 7
        /\ SubSeq(out, n - 6, n) = <<",", " ", "I", "n", "d", "i", "a">>
        /\ \A i \in 1..Len(city) : city[i] # ","
        /\ strip(city) = city
        /\ lower(city) # <<"i", "n", "d", "i", "a">>

-----------------------------------------------------------------------------
(* chunk_resume: the section chunker *)

DEFAULT_SECTIONS ==
    <<"header", "summary", "experience", "education", "skills",
      "certifications">>

SECTION_HEADER_ALIASES ==
    [summary |->
        << <<"s", "u", "m", "m", "a", "r", "y">>, <<"p", "r", "o", "f", "e", "s", "s", "i", "o", "n", "a", "l", " ", "s", "u", "m", "m", "a", "r", "y">>, <<"p", "r", "o", "f", "i", "l", "e">>,
           <<"p", "r", "o", "f", "e", "s", "s", "i", "o", "n", "a", "l", " ", "p", "r", "o", "f", "i", "l", "e">>, <<"c", "a", "r", "e", "e", "r", " ", "s", "u", "m", "m", "a", "r", "y">>,
           <<"s", "u", "m", "m", "a", "r", "y", " ", "o", "f", " ", "q", "u", "a", "l", "i", "f", "i", "c", "a", "t", "i", "o", "n", "s">>, <<"o", "b", "j", "e", "c", "t", "i", "v", "e">>,
           <<"c", "a", "r", "e", "e", "r", " ", "o", "b", "j", "e", "c", "t", "i", "v", "e">> >>,
     experience |->
        << <<"e", "x", "p", "e", "r", "i", "e", "n", "c", "e">>, <<"j", "o", "b", " ", "e", "x", "p", "e", "r", "i", "e", "n", "c", "e">>, <<"w", "o", "r", "k", " ", "e", "x", "p", "e", "r", "i", "e", "n", "c", "e">>,
           <<"p", "r", "o", "f", "e", "s", "s", "i", "o", "n", "a", "l", " ", "e", "x", "p", "e", "r", "i", "e", "n", "c", "e">>, <<"e", "m", "p", "l", "o", "y", "m", "e", "n", "t", " ", "h", "i", "s", "t", "o", "r", "y">>,
           <<"j", "o", "b", " ", "h", "i", "s", "t", "o", "r", "y">>, <<"w", "o", "r", "k", " ", "h", "i", "s", "t", "o", "r", "y">> >>,
     education |->
        << <<"e", "d", "u", "c", "a", "t", "i", "o", "n">>, <<"a", "c", "a", "d", "e", "m", "i", "c", " ", "b", "a", "c", "k", "g", "r", "o", "u", "n", "d">>,
           <<"e", "d", "u", "c", "a", "t", "i", "o", "n", "a", "l", " ", "b", "a", "c", "k", "g", "r", "o", "u", "n", "d">>, <<"q", "u", "a", "l", "i", "f", "i", "c", "a", "t", "i", "o", "n", "s">> >>,
     skills |->
        << <<"s", "k", "i", "l", "l", "s">>, <<"s", "k", "i", "l", "l", " ", "s", "e", "t">>, <<"t", "e", "c", "h", "n", "i", "c", "a", "l", " ", "s", "k", "i", "l", "l", "s">>,
           <<"t", "e", "c", "h", "n", "i", "c", "a", "l", " ", "s", "k", "i", "l", "l", " ", "s", "e", "t">>, <<"t", "e", "c", "h", "n", "i", "c", "a", "l", " ", "p", "r", "o", "f", "i", "c", "i", "e", "n", "c", "y">>,
           <<"t", "e", "c", "h", "n", "i", "c", "a", "l", " ", "p", "r", "o", "f", "i", "c", "i", "e", "n", "c", "i", "e", "s">>, <<"k", "e", "y", " ", "s", "k", "i", "l", "l", "s">>,
           <<"c", "o", "r", "e", " ", "c", "o", "m", "p", "e", "t", "e", "n", "c", "i", "e", "s">>, <<"c", "o", "m", "p", "e", "t", "e", "n", "c", "i", "e", "s">>, <<"s", "k", "i", "l", "l", "s", " ", "s", "u", "m", "m", "a", "r", "y">> >>,
     certifications |->
        << <<"c", "e", "r", "t", "i", "f", "i", "c", "a", "t", "i", "o", "n", "s">>, <<"c", "e", "r", "t", "i", "f", "i", "c", "a", "t", "i", "o", "n">>,
           <<"t", "e", "c", "h", "n", "i", "c", "a", "l", " ", "c", "e", "r", "t", "i", "f", "i", "c", "a", "t", "i", "o", "n", "s">>, <<"t", "e", "c", "h", "n", "i", "c", "a", "l", " ", "c", "e", "r", "t", "i", "f", "i", "c", "a", "t", "i", "o", "n">>,
           <<"l", "i", "c", "e", "n", "s", "e", "s">>, <<"c", "e", "r", "t", "i", "f", "i", "c", "a", "t", "e", "s">>,
           <<"p", "r", "o", "f", "e", "s", "s", "i", "o", "n", "a", "l", " ", "c", "e", "r", "t", "i", "f", "i", "c", "a", "t", "i", "o", "n", "s">> >>]

\* a number whose value matters (a character count)
JInt(n) == [t |-> "int", v |-> n]

\* raw_text[a:b], offsets counted from 0
Slice(s, a, b) == SubSeq(s, a + 1, b)

\* offset of the end of the line in which the 1-based position i lies,
\* line break included
LineEndFrom(s, i) ==
    LET breaks == { j \in i..Len(s) : s[j] \in {"\n", "\r"} }
        first == MinOf(breaks)
    IN  IF breaks = {} THEN Len(s)
        ELSE IF s[first] = "\r" /\ first < Len(s) /\ s[first + 1] = "\n"
        THEN first + 1
        ELSE first

\* text.splitlines(keepends=True) from offset pos on, with the
\* offsets line_start and line_end of every line
RECURSIVE splitlines(_, _)
splitlines(s, pos) ==
    IF pos >= Len(s) THEN << >>
    ELSE <<[line_start |-> pos, line_end |-> LineEndFrom(s, pos + 1)]>>
         \o splitlines(s, LineEndFrom(s, pos + 1))

\* s.rstrip(chars)
RECURSIVE rstrip_chars(_, _)
rstrip_chars(s, chars) ==
    IF s = << >> THEN << >>
    ELSE IF s[Len(s)] \in chars
         THEN rstrip_chars(SubSeq(s, 1, Len(s) - 1), chars)
    ELSE s

\* line.rstrip("\r\n") of the line ln of raw_text
line_no_newline(text, ln) ==
    rstrip_chars(Slice(text, ln.line_start, ln.line_end), {"\r", "\n"})

AllSpaces(s) == \A i \in 1..Len(s) : IsSpace(s[i])

\* \*{1,2}\s*
IsBoldMark(s) == rstrip(s) \in { <<"*">>, <<"*", "*">> }

\* [-*...]+\s*
IsBulletMark(s) ==
    LET r == rstrip(s)
    IN  r # << >> /\ \A i \in 1..Len(r) : r[i] \in BulletChars

\* \d+\s*[\.\)]\s*
IsNumberMark(s) ==
    LET r == rstrip(s)
        d == rstrip(SubSeq(r, 1, Len(r) - 1))
    IN  /\ r # << >>
        /\ r[Len(r)] \in {".", ")"}
        /\ d # << >>
        /\ \A i \in 1..Len(d) : IsDigit(d[i])

\* the whole of s matches
\* \s*(?:\*{1,2}\s*)?(?:[-*...]+\s*)?(?:\d+\s*[\.\)]\s*)?
line_prefix(s) ==
    LET n == Len(s)
    IN  \E a \in 0..n : \E b \in a..n : \E c \in b..n :
            /\ AllSpaces(SubSeq(s, 1, a))
            /\ a = b \/ IsBoldMark(SubSeq(s, a + 1, b))
            /\ b = c \/ IsBulletMark(SubSeq(s, b + 1, c))
            /\ c = n \/ IsNumberMark(SubSeq(s, c + 1, n))

\* the characters line_prefix can match
IsPrefixChar(c) ==
    IsSpace(c) \/ c \in BulletChars \/ IsDigit(c) \/ c \in {".", ")"}

\* the first position of line that line_prefix cannot match
RECURSIVE SkipPrefixChars(_, _)
SkipPrefixChars(line, i) ==
    IF i <= Len(line) /\ IsPrefixChar(line[i])
    THEN SkipPrefixChars(line, i + 1) ELSE i

\* the positions of line right after ^{line_prefix}(?:{alias_pattern}); an
\* alias starts with a letter, so it can only start where the run of
\* characters that line_prefix can match ends
AliasEnds(line, sec) ==
    LET aliases == SECTION_HEADER_ALIASES[sec]
        q == SkipPrefixChars(line, 1)
    IN  IF ~line_prefix(SubSeq(line, 1, q - 1)) THEN {}
        ELSE { q + Len(aliases[k]) :
                 k \in { j \in 1..Len(aliases) :
                           MatchAt(line, q, aliases[j]) } }

HeadingSeparators == {":", "|", "-"}

\* the "standalone" pattern matches the line:
\* \s*(?:[:|\-])?(?:\s*\*{1,2})?\s*$ after an alias
standalone(line, sec) ==
    \E e \in AliasEnds(line, sec) :
        LET i == SkipSpace(line, e)
            j == IF i <= Len(line) /\ line[i] \in HeadingSeparators
                 THEN i + 1 ELSE i
        IN  strip(From(line, j)) \in { << >>, <<"*">>, <<"*", "*">> }

\* where the "inline" pattern can start its content group:
\* \s*[:|\-]\s*(?P<content>\S.*?)(?:\s*\*{1,2})?\s*$ after an alias
inline_starts(line, sec) ==
    { SkipSpace(line, SkipSpace(line, e) + 1) :
        e \in { x \in AliasEnds(line, sec) :
                  LET i == SkipSpace(line, x)
                  IN  /\ i <= Len(line)
                      /\ line[i] \in HeadingSeparators
                      /\ SkipSpace(line, i + 1) <= Len(line) } }

\* the match of one line against the patterns of the sections, in their
\* order: a sequence of no or one match
RECURSIVE match_line(_, _, _)
match_line(line, ln, secs) ==
    IF secs = << >> THEN << >>
    ELSE IF inline_starts(line, Head(secs)) # {}
    THEN <<[section_key |-> Head(secs),
            line_start |-> ln.line_start,
            line_end |-> ln.line_end,
            content_start |->
                ln.line_start
                + (CHOOSE c \in inline_starts(line, Head(secs)) : TRUE)
                - 1]>>
    ELSE IF standalone(line, Head(secs))
    THEN <<[section_key |-> Head(secs),
            line_start |-> ln.line_start,
            line_end |-> ln.line_end,
            content_start |-> ln.line_end]>>
    ELSE match_line(line, ln, Tail(secs))

RECURSIVE detect_lines(_, _, _)
detect_lines(text, lines, secs) ==
    IF lines = << >> THEN << >>
    ELSE LET line == line_no_newline(text, Head(lines))
         IN  match_line(line, Head(lines), secs)
             \o detect_lines(text, Tail(lines), secs)

\* _detect_headers
detect_headers(text, expected_sections) ==
    detect_lines(text, splitlines(text, 0), expected_sections)

\* sorted(matches, key=lambda m: m["line_start"]): a stable sort
RECURSIVE sorted_matches(_)
sorted_matches(matches) ==
    IF matches = << >> THEN << >>
    ELSE LET m == matches[Len(matches)]
             before == sorted_matches(SubSeq(matches, 1, Len(matches) - 1))
             low == SelectSeq(before,
                              LAMBDA x : x.line_start <= m.line_start)
             high == SelectSeq(before,
                               LAMBDA x : x.line_start > m.line_start)
         IN  low \o <<m>> \o high

RECURSIVE dedupe_loop(_, _)
dedupe_loop(out, rest) ==
    IF rest = << >> THEN out
    ELSE LET m == Head(rest)
             prev == out[Len(out)]
         IN  IF m.line_start < prev.line_end
             THEN dedupe_loop(out, Tail(rest))
             ELSE IF /\ m.section_key = prev.section_key
                     /\ m.line_start - prev.line_start < 5
             THEN dedupe_loop(out, Tail(rest))
             ELSE dedupe_loop(Append(out, m), Tail(rest))

\* _dedupe_matches
dedupe_matches(matches) ==
    IF matches = << >> THEN << >>
    ELSE dedupe_loop(<<Head(matches)>>, Tail(matches))

WorkMonths ==
    { <<"j", "a", "n">>, <<"j", "a", "n", "u", "a", "r", "y">>, <<"f", "e", "b">>, <<"f", "e", "b", "r", "u", "a", "r", "y">>, <<"m", "a", "r">>, <<"m", "a", "r", "c", "h">>,
      <<"a", "p", "r">>, <<"a", "p", "r", "i", "l">>, <<"m", "a", "y">>, <<"j", "u", "n">>, <<"j", "u", "n", "e">>, <<"j", "u", "l">>, <<"j", "u", "l", "y">>,
      <<"a", "u", "g">>, <<"a", "u", "g", "u", "s", "t">>, <<"s", "e", "p">>, <<"s", "e", "p", "t">>, <<"s", "e", "p", "t", "e", "m", "b", "e", "r">>, <<"o", "c", "t">>,
      <<"o", "c", "t", "o", "b", "e", "r">>, <<"n", "o", "v">>, <<"n", "o", "v", "e", "m", "b", "e", "r">>, <<"d", "e", "c">>, <<"d", "e", "c", "e", "m", "b", "e", "r">> }

\* (?:19|20)\d{2} at position i
WorkYearAt(line, i) ==
    /\ i + 3 <= Len(line)
    /\ <<line[i], line[i + 1]>> \in { <<"1", "9">>, <<"2", "0">> }
    /\ IsDigit(line[i + 2])
    /\ IsDigit(line[i + 3])

\* the positions right after a match of <month>\s+(?:19|20)\d{2} at i
WorkMonthYearEnds(line, i) ==
    { SkipSpace(line, i + Len(m)) + 4 :
        m \in { w \in WorkMonths :
                  /\ MatchAt(line, i, w)
                  /\ i + Len(w) <= Len(line)
                  /\ IsSpace(line[i + Len(w)])
                  /\ WorkYearAt(line, SkipSpace(line, i + Len(w))) } }

\* \b at position i, after a word character
WordEndsAt(line, i) == i > Len(line) \/ ~IsWord(line[i])

\* (?:present|current|till\s+date|<month>\s+(?:19|20)\d{2})\b at i
WorkRangeEndAt(line, i) ==
    \/ \E w \in { <<"p", "r", "e", "s", "e", "n", "t">>, <<"c", "u", "r", "r", "e", "n", "t">> } :
          MatchAt(line, i, w) /\ WordEndsAt(line, i + Len(w))
    \/ /\ MatchAt(line, i, <<"t", "i", "l", "l">>)
       /\ i + 4 <= Len(line)
       /\ IsSpace(line[i + 4])
       /\ MatchAt(line, SkipSpace(line, i + 4), <<"d", "a", "t", "e">>)
       /\ WordEndsAt(line, SkipSpace(line, i + 4) + 4)
    \/ \E e \in WorkMonthYearEnds(line, i) : WordEndsAt(line, e)

\* WORK_DATE_RANGE_PATTERN.search(line)
work_date_range_search(line) ==
    \E i \in 1..Len(line) :
        /\ i = 1 \/ ~IsWord(line[i - 1])
        /\ \E e \in WorkMonthYearEnds(line, i) :
              LET j == SkipSpace(line, e)
              IN  /\ j <= Len(line)
                  /\ line[j] \in {"-", EnDash, EmDash}
                  /\ WorkRangeEndAt(line, SkipSpace(line, j + 1))

\* _infer_experience_match: a sequence of no or one synthesized match
infer_experience_match(text, matches) ==
    LET keys == { matches[i].section_key : i \in 1..Len(matches) }
        lower_bound ==
            MinOf({ matches[i].line_end : i \in 1..Len(matches) })
        trailing_bounds ==
            { matches[i].line_start :
                i \in { j \in 1..Len(matches) :
                          matches[j].section_key
                              \in {"education", "certifications"} } }
        upper_bound ==
            IF trailing_bounds # {} THEN MinOf(trailing_bounds)
            ELSE Len(text)
        candidate_lines ==
            SelectSeq(splitlines(text, 0),
                      LAMBDA ln :
                          /\ lower_bound <= ln.line_start
                          /\ ln.line_start < upper_bound
                          /\ work_date_range_search(
                                 line_no_newline(text, ln)))
    IN  IF matches = << >> THEN << >>
        ELSE IF keys \cap {"skills", "education"} = {} THEN << >>
        ELSE IF candidate_lines = << >> THEN << >>
        ELSE <<[section_key |-> "experience",
                line_start |-> candidate_lines[1].line_start,
                line_end |-> candidate_lines[1].line_end,
                content_start |-> candidate_lines[1].line_start]>>

\* the matches chunk_resume_from_bold_headings cuts the text at: detected,
\* sorted, de-duplicated, with an inferred experience match when no
\* experience heading was detected
section_matches(text, expected_sections) ==
    LET detected ==
            detect_headers(text, SelectSeq(expected_sections,
                                           LAMBDA s : s # "header"))
        matches == dedupe_matches(sorted_matches(detected))
        inferred == infer_experience_match(text, matches)
    IN  IF /\ matches # << >>
           /\ InSeq("experience", expected_sections)
           /\ \A i \in 1..Len(matches) :
                 matches[i].section_key # "experience"
           /\ inferred # << >>
        THEN dedupe_matches(sorted_matches(matches \o inferred))
        ELSE matches

\* header_slice without the trimming
header_text_Untrimmed(text, matches) == Slice(text, 0, matches[1].line_start)

\* raw_text[: first["line_start"]].strip()
header_text(text, matches) == strip(Slice(text, 0, matches[1].line_start))

\* every slice runs to the end of the text
slice_end_EndOfText(text, matches, i) == Len(text)

\* matches[i + 1]["line_start"] if i + 1 < len(matches) else len(raw_text)
slice_end(text, matches, i) ==
    IF i + 1 <= Len(matches) THEN matches[i + 1].line_start ELSE Len(text)

raw_slice(text, matches, i) ==
    Slice(text, matches[i].content_start, slice_end(text, matches, i))

extracted(text, matches, i) == strip(raw_slice(text, matches, i))

\* the slices of sec with empty slices kept
RECURSIVE section_slices_KeepEmpty(_, _, _, _)
section_slices_KeepEmpty(text, matches, sec, i) ==
    IF i > Len(matches) THEN << >>
    ELSE (IF matches[i].section_key = sec
          THEN <<extracted(text, matches, i)>> ELSE << >>)
         \o section_slices_KeepEmpty(text, matches, sec, i + 1)

\* section_slices[sec] after the loop over matches[i..]
RECURSIVE section_slices(_, _, _, _)
section_slices(text, matches, sec, i) ==
    IF i > Len(matches) THEN << >>
    ELSE (IF /\ matches[i].section_key = sec
             /\ extracted(text, matches, i) # << >>
          THEN <<extracted(text, matches, i)>> ELSE << >>)
         \o section_slices(text, matches, sec, i + 1)

\* "\n".join(chunks)
RECURSIVE join_chunks_OneNewline(_)
join_chunks_OneNewline(chunks) ==
    IF Len(chunks) <= 1 THEN (IF chunks = << >> THEN << >> ELSE chunks[1])
    ELSE chunks[1] \o <<"\n">> \o join_chunks_OneNewline(Tail(chunks))

\* "\n\n".join(chunks)
RECURSIVE join_chunks(_)
join_chunks(chunks) ==
    IF Len(chunks) <= 1 THEN (IF chunks = << >> THEN << >> ELSE chunks[1])
    ELSE chunks[1] \o <<"\n", "\n">> \o join_chunks(Tail(chunks))

\* output[sec]
section_value(text, matches, sec) ==
    IF section_slices(text, matches, sec, 1) # << >>
    THEN JStr(join_chunks(section_slices(text, matches, sec, 1)))
    ELSE JNull

StatusOk == JStr(<<"o", "k">>)
StatusWarn == JStr(<<"w", "a", "r", "n">>)

\* "ok" if len(extracted) == len(raw_trim) else "warn", for the slice i
slice_ok(text, matches, i) ==
    Len(extracted(text, matches, i)) = Len(strip(raw_slice(text, matches, i)))

RECURSIVE SumLen(_, _, _, _)
SumLen(text, matches, sec, i) ==
    IF i > Len(matches) THEN [raw |-> 0, trimmed |-> 0, count |-> 0]
    ELSE LET rest == SumLen(text, matches, sec, i + 1)
         IN  IF matches[i].section_key # sec THEN rest
             ELSE [raw |-> rest.raw + Len(raw_slice(text, matches, i)),
                   trimmed |->
                       rest.trimmed + Len(extracted(text, matches, i)),
                   count |-> rest.count + 1]

\* integrity_check after the loop over the matches
integrity_check(text, matches) ==
    JObj([sec \in { matches[i].section_key : i \in 1..Len(matches) } |->
            JObj([raw_slice_chars |->
                      JInt(SumLen(text, matches, sec, 1).raw),
                  raw_slice_trimmed_chars |->
                      JInt(SumLen(text, matches, sec, 1).trimmed),
                  extracted_chars |->
                      JInt(SumLen(text, matches, sec, 1).trimmed),
                  segment_count |->
                      JInt(SumLen(text, matches, sec, 1).count),
                  status |->
                      IF \A i \in 1..Len(matches) :
                            matches[i].section_key = sec
                                => slice_ok(text, matches, i)
                      THEN StatusOk ELSE StatusWarn])])

\* integrity_warnings after the loop over matches[i..]
RECURSIVE integrity_warnings(_, _, _)
integrity_warnings(text, matches, i) ==
    IF i > Len(matches) THEN << >>
    ELSE (IF slice_ok(text, matches, i) THEN << >>
          ELSE <<JStr(<<matches[i].section_key, ": extracted_chars(",
                        ToString(Len(extracted(text, matches, i))),
                        ") != raw_slice_trimmed_chars(",
                        ToString(Len(strip(raw_slice(text, matches, i)))),
                        "). Possible boundary mismatch.">>)>>)
         \o integrity_warnings(text, matches, i + 1)

\* the result when no heading was found
uncategorized_result(text) ==
    LET unc == strip(text)
        ok == Len(unc) = Len(strip(text))
    IN  <<[k |-> "Uncategorized",
           v |-> IF unc # << >> THEN JStr(unc) ELSE JNull],
          [k |-> "integrity_check",
           v |-> JObj([Uncategorized |->
                    JObj([raw_chars |-> JInt(Len(text)),
                          extracted_chars |-> JInt(Len(unc)),
                          status |-> IF ok THEN StatusOk
                                     ELSE StatusWarn])])]>>
        \o (IF ok THEN << >>
            ELSE <<[k |-> "integrity_warning",
                    v |-> JList(<<JStr(<<"Uncategorized extraction differs from trimmed raw text length (expected due to trimming).">>)>>)]>>)

\* the result cut at the matches, before the reordering
sectioned_result(text, matches, expected_sections) ==
    LET rest == SelectSeq(expected_sections, LAMBDA s : s # "header")
    IN  (IF InSeq("header", expected_sections)
         THEN <<[k |-> "header",
                 v |-> IF header_text(text, matches) # << >>
                       THEN JStr(header_text(text, matches))
                       ELSE JNull]>>
         ELSE << >>)
        \o [i \in 1..Len(rest) |->
              [k |-> rest[i], v |-> section_value(text, matches, rest[i])]]
        \o <<[k |-> "integrity_check",
              v |-> integrity_check(text, matches)]>>
        \o (IF integrity_warnings(text, matches, 1) # << >>
            THEN <<[k |-> "integrity_warning",
                    v |-> JList(integrity_warnings(text, matches, 1))]>>
            ELSE << >>)

\* chunk_resume_from_bold_headings(raw_text) with the default sections;
\* meta is the order in which reorder_sections_to_standard visits the
\* metadata keys
chunk_resume_from_bold_headings(text, meta) ==
    IF detect_headers(text, Tail(DEFAULT_SECTIONS)) = << >>
    THEN uncategorized_result(text)
    ELSE LET matches == section_matches(text, DEFAULT_SECTIONS)
             result == sectioned_result(text, matches, DEFAULT_SECTIONS)
         IN  reorder_sections_to_standard(result, meta)

-----------------------------------------------------------------------------
(* chunk_resume_from_bold_headings on its own *)

NL == <<"\n">>

DateLine == <<"J", "a", "n", " ", "2", "0", "2", "0", " ", "-", " ", "D", "e", "c", " ", "2", "0", "2", "1">> \o NL

\* heading lines, an inline heading, content, a blank line, a line with a
\* job date range, and lines of narrative text
ChunkParts ==
    { <<"S", "k", "i", "l", "l", "s">> \o NL, <<"S", "k", "i", "l", "l", "s", ":">>, <<"S", "u", "m", "m", "a", "r", "y">> \o NL,
      <<"E", "d", "u", "c", "a", "t", "i", "o", "n">> \o NL, <<" ", "x">> \o NL, NL, DateLine,
      <<"E", "x", "p", "e", "r", "i", "e", "n", "c", "e", "-", "l", "e", "d">>, <<"m", "y", " ", "s", "k", "i", "l", "l", "s">> \o NL, <<"J", "o">> \o NL }

\* the concatenations of at most n parts
RECURSIVE TextsOf(_)
TextsOf(n) ==
    IF n = 0 THEN { << >> }
    ELSE TextsOf(n - 1)
         \cup { x \o y : x \in ChunkParts, y \in TextsOf(n - 1) }

SummaryExperienceText ==
    <<"S", "u", "m", "m", "a", "r", "y">> \o NL \o <<"B", "u", "i", "l", "t", " ", "s", "y", "s", "t", "e", "m", "s", ".">> \o NL \o NL
    \o <<"E", "x", "p", "e", "r", "i", "e", "n", "c", "e">> \o NL \o <<"A", "c", "m", "e", " ", "C", "o", "r", "p", " ", "|", " ", "J", "a", "n", " ", "2", "0", "2", "0", " ", "-", " ", "D", "e", "c", " ", "2", "0", "2", "1">> \o NL

\* a skills heading that recurs, with a job date range between
RecurringSkillsText ==
    <<"S", "k", "i", "l", "l", "s">> \o NL \o <<"x">> \o NL \o DateLine
    \o <<"S", "k", "i", "l", "l", "s">> \o NL \o <<"y">> \o NL

\* a skills heading that occurs three times, the second time with nothing
\* under it
EmptySliceText ==
    <<"S", "k", "i", "l", "l", "s">> \o NL \o <<"x">> \o NL \o <<"S", "k", "i", "l", "l", "s">> \o NL
    \o <<"S", "k", "i", "l", "l", "s">> \o NL \o <<"y">> \o NL

ScrumMasterText ==
    <<"S", "k", "i", "l", "l", "s">> \o NL \o <<"C", "e", "r", "t", "i", "f", "i", "e", "d", " ", "P", "r", "o", "f", "e", "s", "s", "i", "o", "n", "a", "l", " ", "S", "c", "r", "u", "m", " ", "M", "a", "s", "t", "e", "r">> \o NL
    \o <<"I", " ", "h", "a", "v", "e", " ", "e", "x", "p", "e", "r", "i", "e", "n", "c", "e", " ", "a", "n", "d", " ", "s", "k", "i", "l", "l", "s", " ", "i", "n", " ", "J", "a", "v", "a">> \o NL

ChunkTextSamples ==
    { SummaryExperienceText, RecurringSkillsText, EmptySliceText,
      ScrumMasterText,
      <<"*", "*", "S", "k", "i", "l", "l", "s", "*", "*">> \o NL \o <<"1", ".", " ", "S", "u", "m", "m", "a", "r", "y", ":">> \o <<"\r", "\n">>
          \o <<"-", " ", "E", "d", "u", "c", "a", "t", "i", "o", "n", " ", "-", " ", "B", "S">> }

InitChunk ==
    /\ Idle
    /\ \E text \in TextsOf(MaxChunkParts) \cup ChunkTextSamples :
          probe = [op |-> "chunk", step |-> "given", text |-> text,
                   out |-> << >>]

Chunk ==
    /\ probe.op = "chunk"
    /\ probe.step = "given"
    /\ \E meta \in MetaOrders :
          probe' = [probe EXCEPT
                      !.step = "chunked",
                      !.out = chunk_resume_from_bold_headings(probe.text,
                                                              meta)]
    /\ UNCHANGED orch_vars

NextChunk == Chunk

SpecChunk == InitChunk /\ [][NextChunk]_vars

Chunked == probe.op = "chunk" /\ probe.step = "chunked"

\* the value of key in the chunker's result, None when the key is absent
SectionOf(key) ==
    IF DictHas(probe.out, key) THEN DictGet(probe.out, key) ELSE JNull

ValueKeys ==
    {"header", "summary", "experience", "education", "skills",
     "certifications", "Uncategorized"}

CharCount(v) == IF IsStr(v) THEN Len(v.v) ELSE 0

RECURSIVE TotalChars(_)
TotalChars(keys) ==
    IF keys = {} THEN 0
    ELSE LET k == CHOOSE x \in keys : TRUE
         IN  CharCount(SectionOf(k)) + TotalChars(keys \ {k})

\* the header and the slices of the sections lie one after the other in
\* the text
SlicesDisjoint(text, ms) ==
    \A i \in 1..Len(ms) :
        /\ ms[i].line_start <= ms[i].content_start
        /\ ms[i].content_start <= slice_end(text, ms, i)
        /\ i < Len(ms)
              => slice_end(text, ms, i) <= ms[i + 1].content_start

\* C16: the header and the section values of the result hold together no
\* more characters than the raw text, also when a heading recurs and its
\* slices are joined by a blank line and when the experience section is
\* inferred; the slices do not overlap, so no character of the text is
\* counted twice.
C16_RoundTripBound ==
    Chunked =>
        /\ TotalChars(ValueKeys) <= Len(probe.text)
        /\ SlicesDisjoint(probe.text,
                          section_matches(probe.text, DEFAULT_SECTIONS))

\* a recurring heading and an inferred experience section
C16_Witness ==
    /\ Chunked
    /\ probe.text = RecurringSkillsText
    /\ SectionOf("skills") = JStr(<<"x">> \o NL \o NL \o <<"y">>)
    /\ SectionOf("experience") = JStr(<<"J", "a", "n", " ", "2", "0", "2", "0", " ", "-", " ", "D", "e", "c", " ", "2", "0", "2", "1">>)

\* the offset of the earliest line on which a heading is detected
FirstHeadingStart(hs) == MinOf({ hs[i].line_start : i \in 1..Len(hs) })

NoneIfEmpty(s) == IF s = << >> THEN JNull ELSE JStr(s)

\* the text starts with the line "Summary"
StartsWithSummaryLine(text) ==
    /\ Len(text) >= 8
    /\ SubSeq(text, 1, 8) = <<"S", "u", "m", "m", "a", "r", "y">> \o NL

\* the header and the summary of the result, given the matches that delimit
\* the slices (ms) and the headings detected in the text (hs)
HeaderExtracted(text, ms, hs) ==
    /\ hs # << >>
          => SectionOf("header")
               = NoneIfEmpty(strip(Slice(text, 0, FirstHeadingStart(hs))))
    /\ StartsWithSummaryLine(text)
          => /\ SectionOf("header") = JNull
             /\ (\A i \in 2..Len(ms) : ms[i].section_key # "summary")
                   => SectionOf("summary")
                        = NoneIfEmpty(strip(Slice(text, 8,
                              IF Len(ms) > 1 THEN ms[2].line_start
                              ELSE Len(text))))
    /\ text = SummaryExperienceText
          => /\ SectionOf("summary") = JStr(<<"B", "u", "i", "l", "t", " ", "s", "y", "s", "t", "e", "m", "s", ".">>)
             /\ SectionOf("experience")
                  = JStr(<<"A", "c", "m", "e", " ", "C", "o", "r", "p", " ", "|", " ", "J", "a", "n", " ", "2", "0", "2", "0", " ", "-", " ", "D", "e", "c", " ", "2", "0", "2", "1">>)

\* C17: when a heading is detected, header is the text before the earliest
\* heading with surrounding whitespace removed, and None when nothing is
\* left; a text that starts with the line "Summary" has header None, and
\* when that is its only summary heading, summary is the trimmed text up to
\* the next section boundary.
C17_HeaderExtraction ==
    Chunked =>
        HeaderExtracted(probe.text,
                        section_matches(probe.text, DEFAULT_SECTIONS),
                        detect_headers(probe.text, Tail(DEFAULT_SECTIONS)))

\* a header was cut off before the first heading and trimmed
C17_Witness ==
    /\ Chunked
    /\ probe.text = <<"J", "o">> \o NL \o NL \o <<"S", "k", "i", "l", "l", "s">> \o NL
    /\ SectionOf("header") = JStr(<<"J", "o">>)

\* C18: every value of the result is None or a string that is not empty and
\* has no whitespace at either end, for every text, the empty text and a
\* text of headings only included.
C18_NoEmptyValue ==
    Chunked =>
        \A key \in ValueKeys :
            \/ SectionOf(key) = JNull
            \/ /\ IsStr(SectionOf(key))
               /\ SectionOf(key).v # << >>
               /\ strip(SectionOf(key).v) = SectionOf(key).v

\* a text of headings only: every section is None
C18_Witness ==
    /\ Chunked
    /\ probe.text = <<"S", "k", "i", "l", "l", "s">> \o NL \o <<"S", "u", "m", "m", "a", "r", "y">> \o NL
    /\ DictHas(probe.out, "skills")
    /\ \A key \in ValueKeys : SectionOf(key) = JNull

\* the line starts with an alias that is the first part of a hyphenated
\* word, as in "Experience-led ..."
StartsHyphenatedWord(line) ==
    \E sec \in {"summary", "experience", "education", "skills",
                "certifications"} :
        \E e \in AliasEnds(line, sec) :
            /\ e < Len(line)
            /\ line[e] = "-"
            /\ IsWord(line[e + 1])

\* C19: a line yields a heading match only if the alias is the heading of
\* the line; a line of narrative text in which an alias is only one of the
\* words, here the first part of a hyphenated word, is no section boundary.
C19_NoFalseSplit ==
    Chunked =>
        LET ms == detect_headers(probe.text, Tail(DEFAULT_SECTIONS))
        IN  \A i \in 1..Len(ms) :
                ~StartsHyphenatedWord(line_no_newline(probe.text, ms[i]))

\* the non-empty trimmed slices of the section sec, in document order
TrimmedSlices(text, ms, sec) ==
    LET all == [i \in 1..Len(ms) |->
                  [key |-> ms[i].section_key,
                   s |-> strip(Slice(text, ms[i].content_start,
                                     IF i < Len(ms)
                                     THEN ms[i + 1].line_start
                                     ELSE Len(text)))]]
        mine == SelectSeq(all, LAMBDA x : x.key = sec /\ x.s # << >>)
    IN  [i \in 1..Len(mine) |-> mine[i].s]

\* the chunks with one blank line between each two of them
RECURSIVE BlankLineJoined(_)
BlankLineJoined(chunks) ==
    IF chunks = << >> THEN << >>
    ELSE IF Len(chunks) = 1 THEN chunks[1]
    ELSE BlankLineJoined(SubSeq(chunks, 1, Len(chunks) - 1))
         \o NL \o NL \o chunks[Len(chunks)]

\* None for no chunk, else the chunks joined
JoinedOrNone(chunks) ==
    IF chunks = << >> THEN JNull ELSE JStr(BlankLineJoined(chunks))

\* every section of the result is its trimmed slices joined, given the
\* matches that delimit the slices
SectionsJoined(text, ms) ==
    \A sec \in {"summary", "experience", "education", "skills",
                "certifications"} :
        SectionOf(sec) = JoinedOrNone(TrimmedSlices(text, ms, sec))

\* C20: the value of a section is its non-empty trimmed slices in document
\* order with exactly one blank line between them, also when its heading
\* occurs several times; an empty slice adds nothing, and a section without
\* a non-empty slice is None.
C20_OneBlobPerKey ==
    (Chunked /\ detect_headers(probe.text, Tail(DEFAULT_SECTIONS)) # << >>)
        => SectionsJoined(probe.text,
                          section_matches(probe.text, DEFAULT_SECTIONS))

\* three skills headings, the second with an empty slice: two chunks joined
C20_Witness ==
    /\ Chunked
    /\ probe.text = EmptySliceText
    /\ SectionOf("skills") = JStr(<<"x">> \o NL \o NL \o <<"y">>)

-----------------------------------------------------------------------------
(* reorder_sections_to_standard on its own *)

ReorderKeys ==
    {"skills", "header", "experience", "projects", "awards",
     "Uncategorized", "integrity_check", "integrity_warning"}

\* the sequences of at most n distinct keys
RECURSIVE KeyOrders(_)
KeyOrders(n) ==
    IF n = 0 THEN { << >> }
    ELSE KeyOrders(n - 1)
         \cup { Append(q, k) : q \in KeyOrders(n - 1), k \in ReorderKeys }

\* a mapping whose keys are in the order ks; the value of a key is its
\* position in the mapping
MappingOf(ks) == [i \in 1..Len(ks) |-> [k |-> ks[i], v |-> JInt(i)]]

DistinctKeys(ks) == \A i, j \in 1..Len(ks) : i # j => ks[i] # ks[j]

InitReorder ==
    /\ Idle
    /\ \E ks \in { q \in KeyOrders(MaxSectionKeys) : DistinctKeys(q) },
          meta \in MetaOrders :
          probe = [op |-> "reorder", step |-> "given", secs |-> MappingOf(ks),
                   meta |-> meta, once |-> << >>, out |-> << >>]

Reorder ==
    /\ probe.op = "reorder"
    /\ probe.step = "given"
    /\ probe' = [probe EXCEPT
                    !.step = "once",
                    !.once = reorder_sections_to_standard(probe.secs,
                                                          probe.meta),
                    !.out = reorder_sections_to_standard(probe.secs,
                                                         probe.meta)]
    /\ UNCHANGED orch_vars

ReorderAgain ==
    /\ probe.op = "reorder"
    /\ probe.step = "once"
    /\ probe' = [probe EXCEPT
                    !.step = "twice",
                    !.out = reorder_sections_to_standard(probe.once,
                                                         probe.meta)]
    /\ UNCHANGED orch_vars

NextReorder == Reorder \/ ReorderAgain

SpecReorder == InitReorder /\ [][NextReorder]_vars

\* where a key stands in the canonical order: the six standard keys first,
\* then every other content key, then the metadata keys
KeyRank(k) ==
    IF InSeq(k, STANDARD_ORDER)
    THEN CHOOSE i \in 1..Len(STANDARD_ORDER) : STANDARD_ORDER[i] = k
    ELSE IF k \in META_KEYS THEN Len(STANDARD_ORDER) + 2
    ELSE Len(STANDARD_ORDER) + 1

\* the position of the key k in the mapping d
KeyPos(d, k) == CHOOSE i \in 1..Len(d) : d[i].k = k

\* out holds the keys and values of secs in the canonical order
CanonicalOrder(secs, out) ==
    /\ Len(out) = Len(secs)
    /\ \A i \in 1..Len(secs) :
          /\ DictHas(out, secs[i].k)
          /\ DictGet(out, secs[i].k) = secs[i].v
    /\ \A i, j \in 1..Len(out) :
          i < j =>
             /\ KeyRank(out[i].k) <= KeyRank(out[j].k)
             /\ KeyRank(out[i].k) = KeyRank(out[j].k)
                   => \/ out[i].k \in META_KEYS
                      \/ KeyPos(secs, out[i].k) < KeyPos(secs, out[j].k)

\* C21: reorder_sections_to_standard returns the same keys with the same
\* values, the standard keys first in the order header, summary,
\* experience, education, skills, certifications, then the other content
\* keys in their original relative order, then the metadata keys; applying
\* it to its own result changes nothing.
C21_CanonicalOrder ==
    /\ (probe.op = "reorder" /\ probe.step = "once")
          => CanonicalOrder(probe.secs, probe.out)
    /\ (probe.op = "reorder" /\ probe.step = "twice")
          => probe.out = probe.once

\* a mapping out of order with two unrecognized keys and a metadata key in
\* front was reordered, and reordered again
C21_Witness ==
    /\ probe.op = "reorder"
    /\ probe.step = "twice"
    /\ DictKeys(probe.secs) = <<"Uncategorized", "projects", "skills">>
    /\ DictKeys(probe.out) = <<"skills", "projects", "Uncategorized">>

-----------------------------------------------------------------------------
(* ResumeAgent.process on arrays with malformed elements *)

ArrayFields ==
    {"professionalSummary", "summarySections", "employmentHistory",
     "projects", "education", "skillCategories", "certifications"}

\* the agent whose output holds the array
FieldAgent(field) ==
    CASE field \in {"professionalSummary", "summarySections"} -> "summary"
      [] field \in {"employmentHistory", "projects"} -> "experience"
      [] field = "education" -> "education"
      [] field = "skillCategories" -> "skills"
      [] field = "certifications" -> "certifications"

\* an element of the shape the schema of the field asks for
Conforming(field) ==
    CASE field = "professionalSummary" -> JStr(<<"-", " ", "a">>)
      [] field = "summarySections" ->
            JObj([title |-> JStr(<<"t">>), content |-> JList(<<JStr(<<"*", " ", "b">>)>>)])
      [] field = "employmentHistory" -> JObj([roleName |-> JStr(<<"e">>)])
      [] field = "projects" -> JObj([projectName |-> JStr(<<"p">>)])
      [] field = "education" -> JObj([degree |-> JStr(<<"B", "S">>)])
      [] field = "skillCategories" -> JObj([categoryName |-> JStr(<<"c">>)])
      [] field = "certifications" -> JObj([name |-> JStr(<<"n">>)])

\* an element conforms: a string in professionalSummary, an object in the
\* other arrays
Conforms(field, element) ==
    IF field = "professionalSummary" THEN IsStr(element) ELSE IsDict(element)

\* elements of another shape
Malformed(field) ==
    { e \in {JStr(<<"x">>), JNum, JNull, EmptyList, EmptyDict} :
        ~Conforms(field, e) }

\* the arrays of at most n elements
RECURSIVE ArraysOf(_, _)
ArraysOf(field, n) ==
    IF n = 0 THEN { << >> }
    ELSE ArraysOf(field, n - 1)
         \cup { Append(a, e) : a \in ArraysOf(field, n - 1),
                               e \in {Conforming(field)} \cup Malformed(field) }

\* arguments of the agent's tool call in which the field is the array
PayloadWith(field, array) ==
    CASE field = "summarySections" ->
            JObj([professionalSummary |-> JList(<<JStr(<<"a">>)>>),
                  summarySections |-> JList(array)])
      [] field = "projects" ->
            JObj([employmentHistory |->
                    JList(<<JObj([roleName |-> JStr(<<"e">>),
                                  projects |-> JList(array)])>>)])
      [] OTHER -> JObj([x \in {field} |-> JList(array)])

InitMalformed ==
    /\ Idle
    /\ \E field \in ArrayFields :
          \E array \in ArraysOf(field, MaxArrayLen) :
             probe = [op |-> "malformed", step |-> "returned_by_model",
                      field |-> field, array |-> array, out |-> << >>]

ProcessMalformed ==
    /\ probe.op = "malformed"
    /\ probe.step = "returned_by_model"
    /\ probe' = [probe EXCEPT
                    !.step = "processed",
                    !.out = process(FieldAgent(probe.field),
                                    [kind |-> "json",
                                     value |-> PayloadWith(probe.field,
                                                           probe.array)])]
    /\ UNCHANGED orch_vars

NextMalformed == ProcessMalformed

SpecMalformed == InitMalformed /\ [][NextMalformed]_vars

\* the array of the field in the data of a result
CleanedArray(field, data) ==
    IF field = "projects"
    THEN Get(Get(data, "employmentHistory").v[1], "projects").v
    ELSE Get(data, field).v

\* C22: for every agent type, when the model returns valid JSON whose array
\* holds an element of the wrong shape, the agent returns success = true and
\* the cleaned array holds no such element.
C22_MalformedRecovered ==
    (probe.op = "malformed" /\ probe.step = "processed") =>
        /\ probe.out.success
        /\ \A i \in 1..Len(CleanedArray(probe.field, probe.out.data)) :
              Conforms(probe.field,
                       CleanedArray(probe.field, probe.out.data)[i])

-----------------------------------------------------------------------------
(* the cleaning of the certifications agent on its own *)

CertParts ==
    { <<"A", "W", "S">>, <<" ">>, <<"I", "s", "s", "u", "e", "d">>, <<"b", "y">>, <<"E", "x", "p", "i", "r", "e", "s">>, <<"N", "u", "m", "b", "e", "r">>,
      <<"D", "a", "t", "e", ":">>, <<"J", "a", "n", " ", "2", "0", "2", "0">>, <<"A", "-", "1", "2">>, <<",", " ">> }

\* the concatenations of at most n parts
RECURSIVE CertNamesOf(_)
CertNamesOf(n) ==
    IF n = 0 THEN { << >> }
    ELSE CertNamesOf(n - 1)
         \cup { x \o y : x \in CertParts, y \in CertNamesOf(n - 1) }

AwsExpires == <<"A", "W", "S", " ", "E", "x", "p", "i", "r", "e", "s", " ", "J", "a", "n", " ", "2", "0", "2", "5">>

CertNameSamples ==
    { AwsExpires, <<"P", "M", "P", " ", "N", "u", "m", "b", "e", "r", " ", "1", "2", "3", "4", "5">>, <<"A", "W", "S", " ", "A", "r", "c", "h", "i", "t", "e", "c", "t", " ", "I", "s", "s", "u", "e", "d", " ", "b", "y", " ", "A", "m", "a", "z", "o", "n">>,
      <<"C", "e", "r", "t", "i", "f", "i", "e", "d", " ", "b", "y", " ", "A", "W", "S", " ", "I", "s", "s", "u", "e", "d", " ", "J", "a", "n", " ", "2", "0", "2", "0">>, <<"A", "W", "S", " ", "I", "S", "S", "U", "E", "D", " ", "B", "Y", " ", "A", "m", "a", "z", "o", "n">> }

InitCertification ==
    /\ Idle
    /\ \E name \in CertNamesOf(MaxCertParts) \cup CertNameSamples :
          probe = [op |-> "certification", step |-> "returned_by_model",
                   name |-> name, out |-> << >>]

CleanCertification ==
    /\ probe.op = "certification"
    /\ probe.step = "returned_by_model"
    /\ probe' = [probe EXCEPT
                    !.step = "cleaned",
                    !.out = clean_extracted_data("certifications",
                                JObj([certifications |->
                                        JList(<<JObj([name |->
                                                 JStr(probe.name)])>>)]))]
    /\ UNCHANGED orch_vars

NextCertification == CleanCertification

SpecCertification == InitCertification /\ [][NextCertification]_vars

\* the leak-indicator words
LeakIndicators ==
    { <<"i", "s", "s", "u", "e", "d">>, <<"o", "b", "t", "a", "i", "n", "e", "d">>, <<"d", "a", "t", "e">>, <<"e", "x", "p", "i", "r", "e", "s">>, <<"e", "x", "p", "i", "r", "a", "t", "i", "o", "n">>,
      <<"n", "u", "m", "b", "e", "r">> }

\* the positions of s at which a leak-indicator word stands, in any case
LeakAt(s) ==
    { p \in 1..Len(s) : \E w \in LeakIndicators : WordAt(s, p, w) }

\* a leak-indicator word of s has text after it
LeakWithText(s) ==
    \E p \in LeakAt(s) :
        \E w \in LeakIndicators :
            /\ WordAt(s, p, w)
            /\ strip(From(s, p + Len(w))) # << >>

\* the text before the first leak-indicator word, trimmed as the code trims
PrefixBeforeLeak(s) ==
    strip_chars(SubSeq(s, 1, MinOf(LeakAt(s)) - 1), {" ", "-", "(", ")"})

\* the name of the only certification of the cleaned data
CleanedName(out) == Get(Get(out.data, "certifications").v[1], "name").v

\* C23: after the cleaning of the certifications agent no name holds a
\* leak-indicator word with text after it, and a name that held such a word
\* has become the text before the first of them.
C23_CleanName ==
    (probe.op = "certification" /\ probe.step = "cleaned") =>
        /\ ~probe.out.raised
        /\ ~LeakWithText(CleanedName(probe.out))
        /\ LeakAt(probe.name) # {}
              => CleanedName(probe.out) = PrefixBeforeLeak(probe.name)

-----------------------------------------------------------------------------
(* the education agent: cleaning and merge *)

\* degrees as the model may return them
Degrees ==
    { <<"B", "T", "e", "c", "h">>, <<"B", "E">>, <<"B", "C", "o", "m">>, <<"B", "A">>, <<"B", "S">>, <<"M", "T", "e", "c", "h">>, <<"M", "E">>,
      <<"M", "S">>, <<"M", "B", "A">>, <<"P", "h", "D">>, <<"A", "A">> }

\* dates of a degree, the older first
EducationDates == << <<"2", "0", "1", "0">>, <<"2", "0", "1", "5">> >>

EducationEntries ==
    { JObj([degree |-> JStr(d), date |-> JStr(EducationDates[i])]) :
        d \in Degrees, i \in 1..Len(EducationDates) }

\* the lists of at most n entries
RECURSIVE EducationLists(_)
EducationLists(n) ==
    IF n = 0 THEN { << >> }
    ELSE EducationLists(n - 1)
         \cup { Append(l, e) : l \in EducationLists(n - 1),
                               e \in EducationEntries }

InitEducation ==
    /\ Idle
    /\ \E l \in EducationLists(MaxEducation) :
          probe = [op |-> "education", step |-> "returned_by_model",
                   data |-> JObj([education |-> JList(l)]),
                   result |-> JNull, merged |-> JNull]

\* ResumeAgent.process of the education agent on the parsed arguments
ProcessEducation ==
    /\ probe.op = "education"
    /\ probe.step = "returned_by_model"
    /\ probe' = [probe EXCEPT
                    !.step = "processed",
                    !.result = process("education",
                                       [kind |-> "json", value |-> probe.data])]
    /\ UNCHANGED orch_vars

\* the merge of the education agent's result
MergeEducation ==
    /\ probe.op = "education"
    /\ probe.step = "processed"
    /\ probe' = [probe EXCEPT
                    !.step = "merged",
                    !.merged = combine_agent_results(
                                  IF probe.result.success
                                  THEN <<probe.result>> ELSE << >>)]
    /\ UNCHANGED orch_vars

NextEducation == ProcessEducation \/ MergeEducation

SpecEducation == InitEducation /\ [][NextEducation]_vars

\* the education list of the merged record
MergedEducation == probe.merged.data.education.v

\* a degree in its standard form
Standardized(degree) ==
    degree \notin { <<"B", "T", "e", "c", "h">>, <<"B", "E">>, <<"B", "C", "o", "m">>, <<"B", "A">>, <<"M", "T", "e", "c", "h">>, <<"M", "E">> }

\* AA/AS, then bachelors, then masters, then PhD/JD
DegreeRank(degree) ==
    CASE degree \in { <<"A", "A">>, <<"A", "S">> } -> 1
      [] degree \in { <<"B", "S">>, <<"B", "T", "e", "c", "h">>, <<"B", "E">>, <<"B", "C", "o", "m">>, <<"B", "A">> } -> 2
      [] degree \in { <<"M", "S">>, <<"M", "T", "e", "c", "h">>, <<"M", "E">>, <<"M", "B", "A">>, <<"M", "A">>,
                      <<"M", "C", "o", "m">> } -> 3
      [] degree \in { <<"P", "h", "D">>, <<"J", "D">> } -> 4

DateRank(date) ==
    CHOOSE i \in 1..Len(EducationDates) : EducationDates[i] = date

\* entry a may stand before entry b
EducationOrdered(a, b) ==
    \/ DegreeRank(Get(a, "degree").v) < DegreeRank(Get(b, "degree").v)
    \/ /\ DegreeRank(Get(a, "degree").v) = DegreeRank(Get(b, "degree").v)
       /\ DateRank(Get(a, "date").v) <= DateRank(Get(b, "date").v)

\* C24: in the merged record every degree is in its standard form and the
\* education list is sorted ascending by degree rank, ties broken by date,
\* whatever list the model call of the education agent returns.
C24_EducationNormalized ==
    (probe.op = "education" /\ probe.step = "merged") =>
        /\ ~probe.merged.raised
        /\ \A i \in 1..Len(MergedEducation) :
              Standardized(Get(MergedEducation[i], "degree").v)
        /\ \A i \in 1..(Len(MergedEducation) - 1) :
              EducationOrdered(MergedEducation[i], MergedEducation[i + 1])

-----------------------------------------------------------------------------
(* ai_parser: extract_data_from_text *)

\* [strip_bullet_prefix(item) for item in j] for a list or a string j
strip_items(j) ==
    LET items == Iter(j)
        bad == { i \in 1..Len(items) : ~IsStr(items[i]) }
    IN  IF bad # {}
        THEN Raised(ExpectedString(
                 items[CHOOSE i \in bad : \A k \in bad : i <= k]))
        ELSE Returned(JList([i \in 1..Len(items) |->
                                JStr(strip_bullet_prefix(items[i].v))]))

\* d[key] = <the stripped list>, unless the comprehension raised
stripped_into(d, key, stripped) ==
    IF stripped.raised THEN stripped
    ELSE Returned(Put(d, key, stripped.data))

\* `if d.get(key): d[key] = [strip_bullet_prefix(item) for item in d[key]]`
bullets_field(d, key) ==
    IF ~IsDict(d) THEN Raised(NoAttribute(d, "get"))
    ELSE IF ~Truthy(Get(d, key)) THEN Returned(d)
    ELSE IF ~CanIter(Get(d, key)) THEN Raised(NotIterable(Get(d, key)))
    ELSE stripped_into(d, key, strip_items(Get(d, key)))

\* `if d.get(key): for x in d[key]: if x.get(inner): x[inner] = [...]`;
\* the characters of a string have no get
items_loop(d, key, inner) ==
    LET v == Get(d, key)
    IN  IF ~Truthy(v) THEN Returned(d)
        ELSE IF ~CanIter(v) THEN Raised(NotIterable(v))
        ELSE IF IsStr(v) THEN Raised(NoAttribute(v, "get"))
        ELSE loop_outcome(d, key,
                 [i \in 1..Len(v.v) |-> bullets_field(v.v[i], inner)])

job_client_projects(j2) ==
    IF j2.raised THEN j2
    ELSE items_loop(j2.data, "clientProjects", "responsibilities")

job_subsections(j1) ==
    IF j1.raised THEN j1
    ELSE items_loop(j1.data, "subsections", "content")

\* the body of the employmentHistory loop of clean_bullet_points
clean_job_bullets(job) ==
    job_client_projects(job_subsections(bullets_field(job, "responsibilities")))

history_bullets(d2) ==
    IF d2.raised THEN d2
    ELSE LET v == Get(d2.data, "employmentHistory")
         IN  IF ~Truthy(v) THEN d2
             ELSE IF ~CanIter(v) THEN Raised(NotIterable(v))
             ELSE IF IsStr(v) THEN Raised(NoAttribute(v, "get"))
             ELSE loop_outcome(d2.data, "employmentHistory",
                      [i \in 1..Len(v.v) |-> clean_job_bullets(v.v[i])])

summary_sections_bullets(d1) ==
    IF d1.raised THEN d1
    ELSE items_loop(d1.data, "summarySections", "content")

\* clean_bullet_points(data)
clean_bullet_points(data) ==
    history_bullets(summary_sections_bullets(
        bullets_field(data, "professionalSummary")))

\* the body of the employmentHistory loop of normalize_dates for a job
\* that has neither a workPeriod nor clientProjects: both `if` are skipped.
\* The responses of the streamed run carry jobs of this kind only.
normalize_job_dates(job) ==
    CASE ~Truthy(Get(job, "workPeriod"))
         /\ ~Truthy(Get(job, "clientProjects")) -> job

\* normalize_dates(data), on the dict clean_bullet_points returned
normalize_dates(data) ==
    LET v == Get(data, "employmentHistory")
    IN  IF ~Truthy(v) THEN data
        ELSE Put(data, "employmentHistory",
                 JList([i \in 1..Len(v.v) |-> normalize_job_dates(v.v[i])]))

get_default_resume_structure ==
    JObj([name |-> EmptyStr, title |-> EmptyStr,
          requisitionNumber |-> EmptyStr,
          professionalSummary |-> EmptyList, summarySections |-> EmptyList,
          employmentHistory |-> EmptyList, education |-> EmptyList,
          certifications |-> EmptyList, technicalSkills |-> EmptyDict,
          skillCategories |-> EmptyList])

\* raise Exception(f"Failed to extract data: {error}")
FailedToExtract(msg) ==
    Raised(<<"Failed to extract data: ">> \o msg)

\* normalize_dates(clean_bullet_points(parsed_data)), or the exception
\* wrapped by the outer handler
extracted_or_raise(cleaned) ==
    IF cleaned.raised THEN FailedToExtract(cleaned.msg)
    ELSE Returned(normalize_dates(cleaned.data))

\* extract_data_from_text(text), given what the one external call does
\* (the responses are those of ResumeAgent.process)
extract_data_from_text(response) ==
    CASE response.kind = "raise" -> FailedToExtract(response.msg)
      [] response.kind = "no_tool_call" ->
            FailedToExtract(<<"'NoneType' object is not subscriptable">>)
      [] response.kind = "bad_json" -> Returned(get_default_resume_structure)
      [] response.kind = "json" ->
            extracted_or_raise(clean_bullet_points(response.value))

-----------------------------------------------------------------------------
(* stream_resume_processing and generate_stream *)

\* the texts the endpoint hands over: extract_text_from_file returns a
\* string, which may be empty
StreamTexts == ChunkTextSamples \cup { << >>, SampleText }

\* arguments of parse_resume as the model call may return them
StreamPayloads ==
    { JObj([name |-> JStr(<<"J", "o">>),
            professionalSummary |->
                JList(<<JStr(<<"-", " ", "a">>), JStr(<<"b">>)>>),
            summarySections |->
                JList(<<JObj([title |-> JStr(StrQA),
                              content |-> JList(<<JStr(<<"*", " ", "c">>)>>)])>>),
            employmentHistory |->
                JList(<<JObj([companyName |-> JStr(StrDev),
                              responsibilities |->
                                  JList(<<JStr(<<"-", " ", "d">>)>>)])>>)]),
      JObj([name |-> JStr(<<"J", "o">>)]),
      JObj([professionalSummary |-> JNum]),
      JObj([professionalSummary |-> JList(<<JNum>>)]),
      JObj([summarySections |-> JList(<<JStr(<<"x">>)>>)]),
      JObj([employmentHistory |-> JStr(<<"x">>)]),
      JList(<< >>),
      JNull }

StreamResponses ==
    FailureResponses
    \cup { [kind |-> "json", value |-> j] : j \in StreamPayloads }

ProgressEvent(type, progress) == [type |-> type, progress |-> progress]

\* the event of the inner handler
ProcessingFailed(msg) ==
    [type |-> "error", message |-> <<"Processing failed: ">> \o msg]

\* the event of the outer handler
ProcessingError(msg) ==
    [type |-> "error", message |-> <<"Processing error: ">> \o msg]

StreamFinal(data) == [type |-> "final_data", data |-> data, progress |-> 98]

\* chunk_resume_from_bold_headings(extracted_text) as the stream calls it
stream_sections(text, meta) ==
    IF IsStr(text)
    THEN Returned(chunk_resume_from_bold_headings(text.v, meta))
    ELSE Raised(NoAttribute(text, "splitlines"))

InitStream ==
    /\ Idle
    /\ \E text \in StreamTexts :
          probe = [op |-> "stream", pc |-> "start", text |-> JStr(text),
                   sections |-> << >>, data |-> JNull, events |-> << >>,
                   done |-> FALSE]

\* the generator up to its first yield
StreamProgress ==
    /\ probe.op = "stream"
    /\ probe.pc = "start"
    /\ probe' = [probe EXCEPT
                    !.pc = "analyzing",
                    !.events = Append(@, ProgressEvent("progress", 10))]
    /\ UNCHANGED orch_vars

\* from the first yield to the second: the text is chunked; an exception
\* reaches the outer handler, whose event is the last of the generator
StreamChunk ==
    /\ probe.op = "stream"
    /\ probe.pc = "analyzing"
    /\ \E meta \in MetaOrders :
          LET chunked == stream_sections(probe.text, meta)
          IN  IF chunked.raised
              THEN probe' = [probe EXCEPT
                               !.pc = "returned",
                               !.events = Append(@, ProcessingError(chunked.msg))]
              ELSE probe' = [probe EXCEPT
                               !.pc = "extracting",
                               !.sections = chunked.data,
                               !.events = Append(@,
                                   ProgressEvent("processing_strategy", 45))]
    /\ UNCHANGED orch_vars

\* the generator resumes to the third yield as it would without the
\* `return` of the inner handler
StreamExtract_NoReturn ==
    /\ probe.op = "stream"
    /\ probe.pc = "extracting"
    /\ \E response \in StreamResponses :
          LET full_resume_data == extract_data_from_text(response)
          IN  IF full_resume_data.raised
              THEN probe' = [probe EXCEPT
                               !.pc = "extracted",
                               !.events = Append(@,
                                   ProcessingFailed(full_resume_data.msg))]
              ELSE probe' = [probe EXCEPT
                               !.pc = "extracted",
                               !.data = full_resume_data.data,
                               !.events = Append(@,
                                   ProgressEvent("full_resume_complete", 90))]
    /\ UNCHANGED orch_vars

\* from the second yield to the third: the await on extract_data_from_text;
\* an exception yields the error event and the generator returns
StreamExtract ==
    /\ probe.op = "stream"
    /\ probe.pc = "extracting"
    /\ \E response \in StreamResponses :
          LET full_resume_data == extract_data_from_text(response)
          IN  IF full_resume_data.raised
              THEN probe' = [probe EXCEPT
                               !.pc = "returned",
                               !.events = Append(@,
                                   ProcessingFailed(full_resume_data.msg))]
              ELSE probe' = [probe EXCEPT
                               !.pc = "extracted",
                               !.data = full_resume_data.data,
                               !.events = Append(@,
                                   ProgressEvent("full_resume_complete", 90))]
    /\ UNCHANGED orch_vars

\* the yield of the record
StreamFinalData ==
    /\ probe.op = "stream"
    /\ probe.pc = "extracted"
    /\ probe' = [probe EXCEPT
                    !.pc = "finalized",
                    !.events = Append(@, StreamFinal(probe.data))]
    /\ UNCHANGED orch_vars

\* the last yield of a successful run
StreamComplete ==
    /\ probe.op = "stream"
    /\ probe.pc = "finalized"
    /\ probe' = [probe EXCEPT
                    !.pc = "returned",
                    !.events = Append(@, ProgressEvent("complete", 100))]
    /\ UNCHANGED orch_vars

\* generate_stream has forwarded every event as one message and sends the
\* completion signal
StreamDone ==
    /\ probe.op = "stream"
    /\ probe.pc = "returned"
    /\ ~probe.done
    /\ probe' = [probe EXCEPT !.done = TRUE]
    /\ UNCHANGED orch_vars

NextStream ==
    \/ StreamProgress
    \/ StreamChunk
    \/ StreamExtract
    \/ StreamFinalData
    \/ StreamComplete
    \/ StreamDone

SpecStream == InitStream /\ [][NextStream]_vars

StreamEvents == probe.events

\* the positions of the events of a type
EventsOf(type) ==
    { i \in 1..Len(StreamEvents) : StreamEvents[i].type = type }

Outcomes == EventsOf("final_data") \cup EventsOf("error")

ProgressTypes == {"progress", "processing_strategy", "full_resume_complete"}

\* before the outcome there are progress notifications only, an outcome is
\* the only one, and no final_data follows an error
OneOutcome ==
    /\ Cardinality(Outcomes) <= 1
    /\ \A i \in Outcomes :
          \A k \in 1..(i - 1) : StreamEvents[k].type \in ProgressTypes

StreamReturned == probe.op = "stream" /\ probe.pc = "returned"

\* C25 as the spec states it: the returned stream holds exactly one outcome
\* after progress notifications and ends in it.
C25_EndsInOutcome ==
    /\ probe.op = "stream" => OneOutcome
    /\ StreamReturned =>
          /\ Cardinality(Outcomes) = 1
          /\ Outcomes = {Len(StreamEvents)}

\* C25 amended: the stream holds progress notifications and then exactly one
\* outcome, final_data carrying the record or error carrying a message,
\* never both and no final_data after an error; an error is the last event
\* of the stream, and a final_data is followed by one `complete`
\* notification only.
C25_OneOutcomeThenComplete ==
    /\ probe.op = "stream" => OneOutcome
    /\ StreamReturned =>
          /\ Cardinality(Outcomes) = 1
          /\ EventsOf("error") # {} => EventsOf("error") = {Len(StreamEvents)}
          /\ EventsOf("final_data") # {} =>
                /\ EventsOf("final_data") = {Len(StreamEvents) - 1}
                /\ StreamEvents[Len(StreamEvents)].type = "complete"
                /\ StreamEvents[Len(StreamEvents) - 1].data = probe.data

\* a stream that has returned after a final_data, and its completion signal
\* has been sent
C25_Witness ==
    /\ StreamReturned
    /\ probe.done
    /\ EventsOf("final_data") # {}
    /\ probe.data # get_default_resume_structure

-----------------------------------------------------------------------------
(* file_parser: extract_text_from_file *)

\* a byte that is not valid UTF-8
InvalidByte == "[0xff]"

\* file_bytes.decode("utf-8", errors="ignore") on ASCII bytes and invalid
\* bytes: the invalid bytes are dropped
decode_ignore(file_bytes) ==
    SelectSeq(file_bytes, LAMBDA b : b # InvalidByte)

_extract_text_from_txt(file_bytes) == strip(decode_ignore(file_bytes))

\* the extraction methods of a PDF and of a DOCX, in the order they are
\* tried; each returns the text it found, "" when it found none or failed
PdfMethods == <<"pdfplumber", "pypdf2", "ocr">>
DocxMethods == <<"docx_xml", "python_docx">>

\* the first non-empty text of the methods, "" when every method gave ""
first_text(methods, readings) ==
    LET found == { i \in 1..Len(methods) : readings[methods[i]] # << >> }
    IN  IF found = {} THEN << >>
        ELSE readings[methods[CHOOSE i \in found : \A k \in found : i <= k]]

_extract_text_from_pdf(readings) == first_text(PdfMethods, readings)

_extract_text_from_docx(readings) == first_text(DocxMethods, readings)

\* extract_text_from_file(file_path) for the temp file of an upload: the
\* file exists, its extension is the suffix of the upload's file name;
\* readings is what the parsing libraries make of the bytes
extract_text_from_file(suffix, file_bytes, readings) ==
    LET file_extension == lower(suffix)
    IN  CASE file_extension = <<".", "p", "d", "f">> ->
                Returned(_extract_text_from_pdf(readings))
          [] file_extension = <<".", "d", "o", "c", "x">> ->
                Returned(_extract_text_from_docx(readings))
          [] file_extension = <<".", "t", "x", "t">> ->
                Returned(_extract_text_from_txt(file_bytes))
          [] OTHER ->
                Raised(<<"Failed to extract text from file: ",
                         "Unsupported file type: ">> \o file_extension)

-----------------------------------------------------------------------------
(* main: stream_resume_processing_endpoint *)

\* what the libraries may read from the bytes of a document
ReadTexts == { << >>, SampleText }

NoReadings == [m \in {} |-> << >>]

Readings(methods) == [{ methods[i] : i \in 1..Len(methods) } -> ReadTexts]

\* the bytes of an upload: none, white space only, text with an invalid
\* byte, text
UploadContents ==
    { << >>, <<" ">> \o NL, <<"J", InvalidByte, "o">> \o NL, SampleText }

\* the uploads: the suffix of the file name, the bytes, and what the parsing
\* libraries make of the bytes
Uploads ==
    { [suffix |-> s, content |-> c, readings |-> NoReadings] :
        s \in { <<".", "t", "x", "t">>, <<".", "d", "o", "c">> }, c \in UploadContents }
    \cup { [suffix |-> s, content |-> c, readings |-> r] :
             s \in { <<".", "p", "d", "f">>, <<".", "P", "D", "F">> }, c \in { << >>, SampleText },
             r \in Readings(PdfMethods) }
    \cup { [suffix |-> <<".", "d", "o", "c", "x">>, content |-> c, readings |-> r] :
             c \in { << >>, SampleText }, r \in Readings(DocxMethods) }

\* str(e) of the HTTPException raised for an empty upload: Starlette formats
\* it as "<status>: <detail>"; before it defined __str__ the string was empty
HTTPExceptionTexts == { <<"4", "0", "0", ":", " ", "F", "i", "l", "e", " ", "i", "s", " ", "e", "m", "p", "t", "y">>, << >> }

HTTPException(status_code, detail) ==
    [status |-> status_code, detail |-> detail]

StreamingResponse == [status |-> 200, detail |-> << >>]

InitUpload ==
    /\ Idle
    /\ \E u \in Uploads :
          probe = [op |-> "upload", pc |-> "received", upload |-> u,
                   temp_file |-> "none", extractions |-> 0,
                   extracted_text |-> JNull, response |-> JNull]

\* `content = await file.read()` and the test for an empty content; the
\* HTTPException raised for an empty content is caught by the handler of
\* the function, which raises HTTPException(500, str(e))
ReadUpload ==
    /\ probe.op = "upload"
    /\ probe.pc = "received"
    /\ IF probe.upload.content = << >>
       THEN \E text \in HTTPExceptionTexts :
               probe' = [probe EXCEPT
                           !.pc = "responded",
                           !.response = HTTPException(500, text)]
       ELSE probe' = [probe EXCEPT !.pc = "read"]
    /\ UNCHANGED orch_vars

\* the temp file is written
CreateTempFile ==
    /\ probe.op = "upload"
    /\ probe.pc = "read"
    /\ probe' = [probe EXCEPT !.pc = "stored", !.temp_file = "exists"]
    /\ UNCHANGED orch_vars

\* one of the two calls of extract_text_from_file; an exception runs the
\* finally clause and reaches the handler of the function
ExtractText ==
    /\ probe.op = "upload"
    /\ probe.pc = "stored"
    /\ LET text == extract_text_from_file(probe.upload.suffix,
                                          probe.upload.content,
                                          probe.upload.readings)
       IN  IF text.raised
           THEN probe' = [probe EXCEPT
                            !.pc = "responded",
                            !.extractions = @ + 1,
                            !.temp_file = "removed",
                            !.response = HTTPException(500, text.msg)]
           ELSE probe' = [probe EXCEPT
                            !.pc = IF probe.extractions = 1
                                   THEN "extracted" ELSE "stored",
                            !.extractions = @ + 1,
                            !.extracted_text = JStr(text.data)]
    /\ UNCHANGED orch_vars

\* `return StreamingResponse(generate_stream(), ...)` and the finally clause
Respond ==
    /\ probe.op = "upload"
    /\ probe.pc = "extracted"
    /\ probe' = [probe EXCEPT
                    !.pc = "responded",
                    !.temp_file = "removed",
                    !.response = StreamingResponse]
    /\ UNCHANGED orch_vars

\* the server iterates generate_stream, which calls
\* stream_resume_processing(extracted_text)
StartStream ==
    /\ probe.op = "upload"
    /\ probe.pc = "responded"
    /\ probe.response.status = 200
    /\ probe' = [op |-> "stream", pc |-> "start",
                 text |-> probe.extracted_text,
                 sections |-> << >>, data |-> JNull, events |-> << >>,
                 done |-> FALSE]
    /\ UNCHANGED orch_vars

NextUpload ==
    \/ ReadUpload
    \/ CreateTempFile
    \/ ExtractText
    \/ Respond
    \/ StartStream
    \/ StreamProgress
    \/ StreamChunk
    \/ StreamExtract
    \/ StreamFinalData
    \/ StreamComplete
    \/ StreamDone

SpecUpload == InitUpload /\ [][NextUpload]_vars

Responded == probe.op = "upload" /\ probe.pc = "responded"

\* an upload whose text extraction fails: the extension is not supported,
\* or no method reads a text from the document
ExtractionFails(u) ==
    \/ lower(u.suffix) \notin { <<".", "p", "d", "f">>, <<".", "d", "o", "c", "x">>, <<".", "t", "x", "t">> }
    \/ /\ lower(u.suffix) = <<".", "p", "d", "f">>
       /\ \A i \in 1..Len(PdfMethods) : u.readings[PdfMethods[i]] = << >>
    \/ /\ lower(u.suffix) = <<".", "d", "o", "c", "x">>
       /\ \A i \in 1..Len(DocxMethods) : u.readings[DocxMethods[i]] = << >>
    \/ /\ lower(u.suffix) = <<".", "t", "x", "t">>
       /\ strip(decode_ignore(u.content)) = << >>

\* C26: for an upload whose extraction fails extract_text_from_file raises
\* a descriptive error, the endpoint answers with it, and the processing
\* stream is never started with an empty text.
C26_ExtractionFailureSurfaces ==
    /\ (probe.op = "upload" /\ probe.extractions > 0
        /\ ExtractionFails(probe.upload)) =>
          /\ probe.pc = "responded"
          /\ probe.response.status # 200
          /\ probe.response.detail # << >>
    /\ probe.op = "stream" => probe.text.v # << >>

\* C30: an upload without content is answered with status 400 and detail
\* 'File is empty', and for it no temp file was created, no extraction was
\* attempted and no stream was started.
C30_EmptyUploadRejected ==
    (probe.op = "upload" /\ probe.upload.content = << >>
     /\ probe.pc # "received") =>
        /\ probe.pc = "responded"
        /\ probe.response = HTTPException(400, <<"F", "i", "l", "e", " ", "i", "s", " ", "e", "m", "p", "t", "y">>)
        /\ probe.temp_file = "none"
        /\ probe.extractions = 0

-----------------------------------------------------------------------------
(* the experience-inference fallback of the chunker *)

\* the headings detected in the text, before any inference
DetectedHeadings(text) ==
    dedupe_matches(sorted_matches(detect_headers(text, Tail(DEFAULT_SECTIONS))))

HeadingKeys(hs) == { hs[i].section_key : i \in 1..Len(hs) }

\* the synthesized matches among ms: an experience match whose content
\* starts with its own line
Synthesized(ms) ==
    { i \in 1..Len(ms) : /\ ms[i].section_key = "experience"
                         /\ ms[i].content_start = ms[i].line_start }

\* the start of the nearest education or certifications heading, the end of
\* the text when there is none
ScanBound(text, hs) ==
    LET starts == { hs[i].line_start :
                      i \in { j \in 1..Len(hs) :
                                hs[j].section_key
                                    \in {"education", "certifications"} } }
    IN  IF starts = {} THEN Len(text) ELSE MinOf(starts)

\* the starts of the lines with a job date range between the end of the
\* first heading and the bound
DateLineStarts(text, hs) ==
    LET lines == splitlines(text, 0)
    IN  { lines[i].line_start :
            i \in { j \in 1..Len(lines) :
                      /\ hs[1].line_end <= lines[j].line_start
                      /\ lines[j].line_start < ScanBound(text, hs)
                      /\ work_date_range_search(
                             line_no_newline(text, lines[j])) } }

\* the line that starts at position p, trimmed
LineFrom(text, p) ==
    LET lines == splitlines(text, 0)
    IN  strip(line_no_newline(text,
              lines[CHOOSE i \in 1..Len(lines) : lines[i].line_start = p]))

\* the fallback applies: a skills or education heading and no experience
\* heading
FallbackApplies(hs) ==
    /\ "experience" \notin HeadingKeys(hs)
    /\ HeadingKeys(hs) \cap {"skills", "education"} # {}

\* the claim for a text, its detected headings hs and the matches ms the
\* text is cut at
InferenceHolds(text, hs, ms, experience) ==
    /\ Synthesized(ms) # {} =>
          /\ FallbackApplies(hs)
          /\ DateLineStarts(text, hs) # {}
          /\ \A i \in Synthesized(ms) :
                ms[i].line_start = MinOf(DateLineStarts(text, hs))
    /\ (FallbackApplies(hs) /\ DateLineStarts(text, hs) # {}) =>
          /\ IsStr(experience)
          /\ LET line == LineFrom(text, MinOf(DateLineStarts(text, hs)))
             IN  Prefix(experience.v, Len(line)) = line

\* C27: an experience match is synthesized only when no experience heading
\* and at least one skills or education heading was detected; it starts at
\* the first line with a job date range between the end of the first
\* heading and the start of the nearest education/certifications heading
\* (or the end of the text); and whenever such a line exists the experience
\* value of the result is a string that begins with that line.
C27_ExperienceInferred ==
    Chunked =>
        InferenceHolds(probe.text, DetectedHeadings(probe.text),
                       section_matches(probe.text, DEFAULT_SECTIONS),
                       SectionOf("experience"))

-----------------------------------------------------------------------------
(* agent failures in a run *)

\* every agent has returned and the run has yielded its event
RunEnded == Terminated /\ AllDone

\* a record with every field at its empty default
AllEmpty(rec) ==
    /\ \A f \in {"name", "title", "requisitionNumber"} : rec[f] = EmptyStr
    /\ rec.technicalSkills = EmptyDict
    /\ \A f \in DOMAIN rec \ {"name", "title", "requisitionNumber",
                              "technicalSkills"} : rec[f] = EmptyList

\* C29 as the spec states it: whichever agents failed, the run ends in
\* final_data and never in error, and when all six failed the record is the
\* all-empty default record.
C29_AsStated ==
    RunEnded =>
        /\ IsFinalData(events[1])
        /\ FailedAgents = AgentType => AllEmpty(events[1].data)

\* C29 amended: whichever agents failed, the run ends in final_data unless
\* the merge raises on the data of an agent that succeeded (a header payload
\* that is not an object, a title or name that is not a string); an error
\* event is never the consequence of the agents that failed, and when all
\* six failed the record is the all-empty default record.
C29_FailuresNeverFatal ==
    RunEnded =>
        /\ IsError(events[1]) <=> \E at \in AgentType : MergeRaisesOn(at)
        /\ IsFinalData(events[1]) \/ IsError(events[1])
        /\ FailedAgents = AgentType =>
              /\ IsFinalData(events[1])
              /\ AllEmpty(events[1].data)

\* a run in which all six agents failed has ended with the all-empty record
C29_Witness ==
    /\ pc = "done"
    /\ FailedAgents = AgentType
    /\ IsFinalData(events[1])
    /\ AllEmpty(events[1].data)
    /\ events[1].data.name = EmptyStr

-----------------------------------------------------------------------------
(* liveness of a run *)

\* the responses of the runs checked for liveness: for every agent its way
\* of failing and one payload on which process succeeds
LiveResponses(at) ==
    { RunFailure(at),
      [kind |-> "json",
       value |-> CHOOSE j \in Payloads(at) :
                    process(at, [kind |-> "json", value |-> j]).success] }

\* AgentReturn with one of these responses
AgentReturnLive(at) ==
    /\ AgentReturn(at)
    /\ results'[at] \in { process(at, r) : r \in LiveResponses(at) }

\* The event loop runs every task that can run: the run starts, each task
\* issues its call, and the orchestrator goes on when gather has every
\* result.  Every external call returns or raises in the end.
Fairness ==
    /\ WF_vars(StartRun)
    /\ \A at \in AgentType : WF_vars(AgentCall(at))
    /\ \A at \in AgentType : WF_vars(AgentReturnLive(at))
    /\ WF_vars(Collect)

\* the runs of one process: the iteration order of the set of metadata keys
\* is the same in all of them
InitLive ==
    /\ Init
    /\ meta_order = <<"integrity_check", "integrity_warning", "Uncategorized">>

NextLive ==
    \/ StartRun
    \/ \E at \in AgentType : AgentCall(at)
    \/ \E at \in AgentType : AgentReturnLive(at)
    \/ Collect
    \/ Finish

SpecLive == InitLive /\ [][NextLive]_vars /\ Fairness

\* the terminal event has been emitted
Emitted == Len(events) = 1

\* a task has been created and has not finished
Unfinished(at) == task[at] \in {"pending", "awaiting"}

\* while a task is unfinished there is no terminal event, however many of
\* its siblings have finished
BlockedWhileUnfinished ==
    (\E at \in AgentType : Unfinished(at)) => events = << >>

\* C28: when every external call returns or raises the run emits its
\* terminal event in the end; the event is emitted only when all six tasks
\* have finished, so that a call that has not returned holds it back even
\* when the five other agents are done.
C28_Liveness == []BlockedWhileUnfinished /\ <>Emitted

\* five agents are done, the call of the sixth has not returned and no
\* event has been emitted
C28_Witness ==
    /\ pc = "gather"
    /\ task["education"] = "awaiting"
    /\ \A at \in AgentType \ {"education"} : task[at] = "done"
    /\ events = << >>

====
